---- MODULE Spec2Model ----
(***************************************************************************)
(* Task storage engine of the to-do service: the in-memory backend         *)
(* (inMemoryTaskStore) and the file-backed backend (jsonTaskStore), with   *)
(* the identifier allocator (idSeq, reusableIds) both of them embed.        *)
(*                                                                         *)
(* Strings that reach the JSON encoder (titles, descriptions) are byte     *)
(* sequences, so that the encoder's coercion to valid UTF-8 is modelled.   *)
(* User names are opaque tokens standing for valid UTF-8 strings.          *)
(***************************************************************************)
EXTENDS Integers, Sequences, FiniteSets, TLC

\* ------------------------------------------------------------------ bounds
\* idSeq is not extended beyond MaxId (the guard of the idSeq++ branch).
MaxId == 2
\* At most MaxFail save steps fail in one behaviour.
MaxFail == 2
\* Number of goroutines of the concurrent-add scenario.
NumGoroutines == 3
\* Number of goroutines that make one call each in the concurrent-calls
\* scenario.
NumCallers == 2
\* Number of AddTask calls each user makes in the concurrent-users scenario.
TasksPerUser == 2
\* Number of lines standard input holds at most.
MaxLines == 5

\* ------------------------------------------------------------------ inputs
Users == {"alice", "bob"}
\* "" , "t" and the one-byte string "\xff", which is not valid UTF-8
EmptyStr == << >>
TitleT == <<116>>
BadStr == <<255>>
\* U+FFFD, the Unicode replacement rune, in UTF-8
ReplacementRune == <<239, 191, 189>>
Titles == {EmptyStr, BadStr}
Descriptions == {TitleT}
\* identifiers a caller may name: every one the store can issue
Ids == 1 .. MaxId

\* ------------------------------------------------------------------ Go maps
MapPut(m, k, v) == [x \in (DOMAIN m) \cup {k} |-> IF x = k THEN v ELSE m[x]]
MapDel(m, k) == [x \in (DOMAIN m) \ {k} |-> m[x]]
EmptyMap == [x \in {} |-> x]
Has(m, k) == k \in DOMAIN m

\* sort.Ints on a slice: the ascending sequence holding the same elements
RECURSIVE SortInts(_)
SortInts(s) ==
  IF s = << >> THEN << >>
  ELSE LET m == CHOOSE i \in 1 .. Len(s) : \A j \in 1 .. Len(s) : s[i] <= s[j]
       IN <<s[m]>> \o SortInts(SubSeq(s, 1, m - 1) \o SubSeq(s, m + 1, Len(s)))

\* ------------------------------------------------------------------ Task
NewTask(id, title, description) ==
  [ID |-> id, Title |-> title, Description |-> description, Completed |-> FALSE]
\* Task{}: the zero value returned next to an error
ZeroTask == [ID |-> 0, Title |-> EmptyStr, Description |-> EmptyStr, Completed |-> FALSE]

\* errors
Nil == "nil"
ErrTaskNotFound == "task not found"
ErrTaskNotFoundForUser == "task not found for user"
ErrUserNotFound == "user not found"
ErrIO == "io error"

VARIABLES
  backend,      \* "mem" (inMemoryTaskStore) or "json" (jsonTaskStore)
  tasks,        \* store.tasks: mem id -> user -> Task, json user -> id -> Task
  idSeq,        \* store.idSeq
  reusableIds,  \* store.reusableIds
  file,         \* content of the backing file (json), NoFile for mem
  up,           \* the process is running (FALSE after os.Exit(1))
  fails,        \* number of save steps that failed so far
  last,         \* the last call that changed the store, and what it returned
  mutex,        \* store.mutex: 0 when free, else the goroutine holding it
  pc,           \* concurrent scenario: where each goroutine is in AddTask
  loc,          \* its arguments and local variables
  rets,         \* the ID of the task its AddTask returned (0: not yet)
  spawnLive,    \* history: number of live tasks when the goroutines started
  twin,         \* an inMemoryTaskStore given the same calls as the file store
  users,        \* userStore.users: user name -> User
  resp,         \* the status code of the last HTTP response (0: none yet)
  usersNil,     \* userStore.users is the nil map of the zero UserStore
  usersFile,    \* content of users.json
  userMutex,    \* userStore.mutex: 0 when free, else the goroutine holding it
  isLoggedIn,   \* the global isLoggedIn
  loggedInUsername, \* the global loggedInUsername
  stdin         \* the number of lines of standard input not read yet

vars == <<backend, tasks, idSeq, reusableIds, file, up, fails, last,
          mutex, pc, loc, rets, spawnLive, twin, users, resp,
          usersNil, usersFile, userMutex, isLoggedIn, loggedInUsername, stdin>>

\* ------------------------------------------------------------------ JSON
\* strconv-style decimal text of a map key (encoding/json writes an int key
\* as its decimal string), as bytes '0'..'9'
RECURSIVE Itoa(_)
Itoa(n) == IF n < 10 THEN <<48 + n>> ELSE Itoa(n \div 10) \o <<48 + (n % 10)>>

RECURSIVE Atoi(_)
Atoi(s) == IF Len(s) = 1 THEN s[1] - 48
           ELSE 10 * Atoi(SubSeq(s, 1, Len(s) - 1)) + (s[Len(s)] - 48)

\* encoding/json writes a string coerced to valid UTF-8: ASCII bytes and the
\* encoded U+FFFD stay, any other byte (no other multi-byte sequence occurs
\* in the inputs) becomes U+FFFD
RECURSIVE ToValidUTF8(_)
ToValidUTF8(s) ==
  IF s = << >> THEN << >>
  ELSE IF s[1] < 128 THEN <<s[1]>> \o ToValidUTF8(Tail(s))
  ELSE IF Len(s) >= 3 /\ SubSeq(s, 1, 3) = ReplacementRune
       THEN ReplacementRune \o ToValidUTF8(SubSeq(s, 4, Len(s)))
  ELSE ReplacementRune \o ToValidUTF8(Tail(s))

\* one task as the JSON object {id, title, description, completed}
EncodeTask(t) ==
  [id |-> t.ID, title |-> ToValidUTF8(t.Title),
   description |-> ToValidUTF8(t.Description), completed |-> t.Completed]
DecodeTask(o) ==
  [ID |-> o.id, Title |-> o.title, Description |-> o.description,
   Completed |-> o.completed]

\* encoder.Encode(store.tasks): user name -> decimal key -> task object
Encode(ts) ==
  [u \in DOMAIN ts |->
     [k \in {Itoa(i) : i \in DOMAIN ts[u]} |-> EncodeTask(ts[u][Atoi(k)])]]
\* json.NewDecoder(file).Decode(&tasks)
Decode(doc) ==
  [u \in DOMAIN doc |->
     [i \in {Atoi(k) : k \in DOMAIN doc[u]} |-> DecodeTask(doc[u][Itoa(i)])]]

\* the backing file: absent, a JSON document, or a file left truncated or
\* half written, which is no JSON document
Document(doc) == [kind |-> "document", doc |-> doc]
NoFile == [kind |-> "none", doc |-> EmptyMap]
Corrupt == [kind |-> "corrupt", doc |-> EmptyMap]
\* createEmptyJSONFile writes "{}"
EmptyDocument == Document(Encode(EmptyMap))

\* saveToFile: os.Create fails (file untouched), or the file is truncated
\* and the write fails, or the whole document is written
SaveOutcomes == {"ok", "create failed", "write failed"}
SaveErr(outcome) == IF outcome = "ok" THEN Nil ELSE ErrIO
saveToFile(outcome) ==
  /\ outcome # "ok" => fails < MaxFail
  /\ fails' = IF outcome = "ok" THEN fails ELSE fails + 1
  /\ file' = CASE outcome = "ok" -> Document(Encode(tasks'))
               [] outcome = "create failed" -> file
               [] OTHER -> Corrupt

\* ------------------------------------------------------------------ allocator
\* the model stops extending the identifier sequence at MaxId
AllocGuard == Len(reusableIds) > 0 \/ idSeq < MaxId

\* ------------------------------------------------------------------ views
\* identifiers of live tasks, and the owners of a live identifier
MemLive == DOMAIN tasks
JsLive == UNION {DOMAIN tasks[u] : u \in DOMAIN tasks}
LiveIds == IF backend = "mem" THEN MemLive ELSE JsLive
Owners(id) ==
  IF backend = "mem"
  THEN (IF Has(tasks, id) THEN DOMAIN tasks[id] ELSE {})
  ELSE {u \in DOMAIN tasks : Has(tasks[u], id)}
Owns(u, id) == u \in Owners(id)

\* a call: the operation, the user and the identifier it was about, the
\* error and the task it returned, and whether its save step (if any) wrote
\* the document
Call(op, u, id, err, task) ==
  [op |-> op, user |-> u, id |-> id, err |-> err, task |-> task, saved |-> TRUE]
NoCall == Call("none", "", 0, Nil, ZeroTask)

\* the orders in which ranging over a Go map with key set S may visit it
Orders(S) ==
  {o \in [1 .. Cardinality(S) -> S] : \A i, j \in DOMAIN o : i # j => o[i] # o[j]}

conc == <<mutex, pc, loc, rets, spawnLive>>
\* the user store and the login session, of which the task stores know nothing
session == <<usersNil, usersFile, userMutex, isLoggedIn, loggedInUsername, stdin>>
http == <<users, resp, session>>

\* a server that has loaded an empty users.json and has answered no request,
\* with nobody logged in and nothing to read on standard input
HttpIdle ==
  /\ users = EmptyMap /\ usersNil = FALSE /\ usersFile = EmptyDocument
  /\ userMutex = 0
  /\ isLoggedIn = FALSE /\ loggedInUsername = ""
  /\ stdin = 0
  /\ resp = 0

\* ------------------------------------------------------------------ inMemoryTaskStore
\* A call that changes the store (or the file) is recorded in last, with what
\* it returned.  What a call that changes nothing returns is a function of
\* the state it is made in: the ...Err and ...Ret operators.

\* AddTask that takes the head of the free-list and leaves it there
MemAddTask_NoPop(u, title, description) ==
  /\ backend = "mem" /\ up /\ AllocGuard
  /\ LET id == IF Len(reusableIds) > 0 THEN reusableIds[1] ELSE idSeq + 1
         task == NewTask(id, title, description)
         inner == IF Has(tasks, id) THEN tasks[id] ELSE EmptyMap
     IN /\ IF Len(reusableIds) > 0
           THEN reusableIds' = reusableIds /\ idSeq' = idSeq
           ELSE idSeq' = idSeq + 1 /\ reusableIds' = reusableIds
        /\ tasks' = MapPut(tasks, id, MapPut(inner, u, task))
        /\ last' = Call("AddTask", u, id, Nil, task)
  /\ UNCHANGED <<backend, file, up, fails, conc, twin, http>>

MemAddTask(u, title, description) ==
  /\ backend = "mem" /\ up /\ AllocGuard
  /\ LET id == IF Len(reusableIds) > 0 THEN reusableIds[1] ELSE idSeq + 1
         task == NewTask(id, title, description)
         inner == IF Has(tasks, id) THEN tasks[id] ELSE EmptyMap
     IN /\ IF Len(reusableIds) > 0
           THEN reusableIds' = Tail(reusableIds) /\ idSeq' = idSeq
           ELSE idSeq' = idSeq + 1 /\ reusableIds' = reusableIds
        /\ tasks' = MapPut(tasks, id, MapPut(inner, u, task))
        /\ last' = Call("AddTask", u, id, Nil, task)
  /\ UNCHANGED <<backend, file, up, fails, conc, twin, http>>

\* the error RemoveTask returns
MemRemoveTaskErr(u, id) ==
  IF ~Has(tasks, id) THEN ErrTaskNotFound
  ELSE IF ~Has(tasks[id], u) THEN ErrTaskNotFoundForUser
  ELSE Nil

\* RemoveTask that deletes the task and forgets to reclaim its identifier
MemRemoveTask_NoReclaim(u, id) ==
  /\ backend = "mem" /\ up
  /\ IF MemRemoveTaskErr(u, id) # Nil
     THEN UNCHANGED <<tasks, reusableIds, last>>
     ELSE LET inner == MapDel(tasks[id], u)
          IN /\ tasks' = IF DOMAIN inner = {} THEN MapDel(tasks, id)
                         ELSE MapPut(tasks, id, inner)
             /\ reusableIds' = reusableIds
             /\ last' = Call("RemoveTask", u, id, Nil, ZeroTask)
  /\ UNCHANGED <<backend, idSeq, file, up, fails, conc, twin, http>>

MemRemoveTask(u, id) ==
  /\ backend = "mem" /\ up
  /\ IF MemRemoveTaskErr(u, id) # Nil
     THEN UNCHANGED <<tasks, reusableIds, last>>
     ELSE LET inner == MapDel(tasks[id], u)
          IN /\ tasks' = IF DOMAIN inner = {} THEN MapDel(tasks, id)
                         ELSE MapPut(tasks, id, inner)
             /\ reusableIds' = SortInts(Append(reusableIds, id))
             /\ last' = Call("RemoveTask", u, id, Nil, ZeroTask)
  /\ UNCHANGED <<backend, idSeq, file, up, fails, conc, twin, http>>

\* ListTasks that does not look at the user name
MemListTasksRet_AnyUser(u) ==
  {[i \in DOMAIN o |-> tasks[o[i]][CHOOSE w \in DOMAIN tasks[o[i]] : TRUE]] :
     o \in Orders(DOMAIN tasks)}

\* the slices ListTasks may return: one per order of the range over the map
MemListTasksRet(u) ==
  {[i \in DOMAIN o |-> tasks[o[i]][u]] :
     o \in Orders({id \in DOMAIN tasks : Has(tasks[id], u)})}

MemListTasks(u) ==
  /\ backend = "mem" /\ up
  /\ UNCHANGED vars

\* GetTask that tells an unknown identifier from another user's, as
\* RemoveTask does
MemGetTaskRet_Distinct(u, id) ==
  IF ~Has(tasks, id) THEN [task |-> ZeroTask, err |-> ErrTaskNotFound]
  ELSE IF ~Has(tasks[id], u) THEN [task |-> ZeroTask, err |-> ErrTaskNotFoundForUser]
  ELSE [task |-> tasks[id][u], err |-> Nil]

\* what GetTask returns: (task, error)
MemGetTaskRet(u, id) ==
  IF Has(tasks, id) /\ Has(tasks[id], u)
  THEN [task |-> tasks[id][u], err |-> Nil]
  ELSE [task |-> ZeroTask, err |-> ErrTaskNotFoundForUser]

MemGetTask(u, id) ==
  /\ backend = "mem" /\ up
  /\ UNCHANGED vars

\* CompleteTask that refuses a task that is completed already
MemCompleteTaskErr_Once(u, id) ==
  IF Has(tasks, id) /\ Has(tasks[id], u) /\ ~tasks[id][u].Completed
  THEN Nil ELSE ErrTaskNotFoundForUser

\* the error CompleteTask returns
MemCompleteTaskErr(u, id) ==
  IF Has(tasks, id) /\ Has(tasks[id], u) THEN Nil ELSE ErrTaskNotFoundForUser

\* CompleteTask that flips the flag of the task
MemCompleteTask_Toggle(u, id) ==
  /\ backend = "mem" /\ up
  /\ IF MemCompleteTaskErr(u, id) = Nil
     THEN /\ tasks' = MapPut(tasks, id,
                        MapPut(tasks[id], u,
                               [tasks[id][u] EXCEPT !.Completed = ~tasks[id][u].Completed]))
          /\ last' = Call("CompleteTask", u, id, Nil, ZeroTask)
     ELSE UNCHANGED <<tasks, last>>
  /\ UNCHANGED <<backend, idSeq, reusableIds, file, up, fails, conc, twin, http>>

MemCompleteTask(u, id) ==
  /\ backend = "mem" /\ up
  /\ IF MemCompleteTaskErr(u, id) = Nil
     THEN /\ tasks' = MapPut(tasks, id,
                        MapPut(tasks[id], u, [tasks[id][u] EXCEPT !.Completed = TRUE]))
          /\ last' = Call("CompleteTask", u, id, Nil, ZeroTask)
     ELSE UNCHANGED <<tasks, last>>
  /\ UNCHANGED <<backend, idSeq, reusableIds, file, up, fails, conc, twin, http>>

\* ------------------------------------------------------------------ jsonTaskStore
\* AddTask that never looks at the free-list
JsAddTask_AlwaysExtend(u, title, description, outcome) ==
  /\ backend = "json" /\ up /\ AllocGuard
  /\ LET id == idSeq + 1
         task == NewTask(id, title, description)
         inner == IF Has(tasks, u) THEN tasks[u] ELSE EmptyMap
     IN /\ idSeq' = idSeq + 1 /\ reusableIds' = reusableIds
        /\ tasks' = MapPut(tasks, u, MapPut(inner, id, task))
        /\ saveToFile(outcome)
        /\ last' = [Call("AddTask", u, id, Nil, task) EXCEPT !.saved = (outcome = "ok")]
  /\ UNCHANGED <<backend, up, conc, twin, http>>

\* AddTask that keeps in the map the task as the file will hold it, with the
\* strings coerced to valid UTF-8, and returns the task as it was given
JsAddTask_StoreCoerced(u, title, description, outcome) ==
  /\ backend = "json" /\ up /\ AllocGuard
  /\ LET id == IF Len(reusableIds) > 0 THEN reusableIds[1] ELSE idSeq + 1
         task == NewTask(id, title, description)
         inner == IF Has(tasks, u) THEN tasks[u] ELSE EmptyMap
     IN /\ IF Len(reusableIds) > 0
           THEN reusableIds' = Tail(reusableIds) /\ idSeq' = idSeq
           ELSE idSeq' = idSeq + 1 /\ reusableIds' = reusableIds
        /\ tasks' = MapPut(tasks, u, MapPut(inner, id, DecodeTask(EncodeTask(task))))
        /\ saveToFile(outcome)
        /\ last' = [Call("AddTask", u, id, Nil, task) EXCEPT !.saved = (outcome = "ok")]
  /\ UNCHANGED <<backend, up, conc, twin, http>>

JsAddTask(u, title, description, outcome) ==
  /\ backend = "json" /\ up /\ AllocGuard
  /\ LET id == IF Len(reusableIds) > 0 THEN reusableIds[1] ELSE idSeq + 1
         task == NewTask(id, title, description)
         inner == IF Has(tasks, u) THEN tasks[u] ELSE EmptyMap
     IN /\ IF Len(reusableIds) > 0
           THEN reusableIds' = Tail(reusableIds) /\ idSeq' = idSeq
           ELSE idSeq' = idSeq + 1 /\ reusableIds' = reusableIds
        /\ tasks' = MapPut(tasks, u, MapPut(inner, id, task))
        /\ saveToFile(outcome)
        /\ last' = [Call("AddTask", u, id, Nil, task) EXCEPT !.saved = (outcome = "ok")]
  /\ UNCHANGED <<backend, up, conc, twin, http>>

\* the error RemoveTask returns when its save step, if reached, ends in outcome
JsRemoveTaskErr(u, id, outcome) ==
  IF Has(tasks, u)
  THEN (IF ~Has(tasks[u], id) THEN ErrTaskNotFoundForUser ELSE SaveErr(outcome))
  ELSE ErrUserNotFound

\* RemoveTask that reclaims the identifier and leaves the task in the map
JsRemoveTask_KeepTask(u, id, outcome) ==
  /\ backend = "json" /\ up
  /\ IF Has(tasks, u) /\ Has(tasks[u], id)
     THEN /\ tasks' = tasks
          /\ reusableIds' = Append(reusableIds, id)
          /\ saveToFile(outcome)
          /\ last' = [Call("RemoveTask", u, id, JsRemoveTaskErr(u, id, outcome), ZeroTask)
                        EXCEPT !.saved = (outcome = "ok")]
     ELSE /\ outcome = "ok"
          /\ UNCHANGED <<tasks, reusableIds, file, fails, last>>
  /\ UNCHANGED <<backend, idSeq, up, conc, twin, http>>

JsRemoveTask(u, id, outcome) ==
  /\ backend = "json" /\ up
  /\ IF Has(tasks, u) /\ Has(tasks[u], id)
     THEN LET userTasks == MapDel(tasks[u], id)
          IN /\ tasks' = IF DOMAIN userTasks = {} THEN MapDel(tasks, u)
                         ELSE MapPut(tasks, u, userTasks)
             /\ reusableIds' = Append(reusableIds, id)
             /\ saveToFile(outcome)
             /\ last' = [Call("RemoveTask", u, id, JsRemoveTaskErr(u, id, outcome), ZeroTask)
                           EXCEPT !.saved = (outcome = "ok")]
     ELSE /\ outcome = "ok"
          /\ UNCHANGED <<tasks, reusableIds, file, fails, last>>
  /\ UNCHANGED <<backend, idSeq, up, conc, twin, http>>

\* ListTasks that leaves out the completed tasks
JsListTasksRet_Pending(u) ==
  {[i \in DOMAIN o |-> tasks[u][o[i]]] :
     o \in Orders(IF Has(tasks, u)
                  THEN {id \in DOMAIN tasks[u] : ~tasks[u][id].Completed} ELSE {})}

JsListTasksRet(u) ==
  {[i \in DOMAIN o |-> tasks[u][o[i]]] :
     o \in Orders(IF Has(tasks, u) THEN DOMAIN tasks[u] ELSE {})}

JsListTasks(u) ==
  /\ backend = "json" /\ up
  /\ UNCHANGED vars

JsGetTaskRet(u, id) ==
  IF Has(tasks, u) /\ Has(tasks[u], id)
  THEN [task |-> tasks[u][id], err |-> Nil]
  ELSE [task |-> ZeroTask, err |-> ErrTaskNotFoundForUser]

JsGetTask(u, id) ==
  /\ backend = "json" /\ up
  /\ UNCHANGED vars

JsCompleteTaskErr(u, id, outcome) ==
  IF Has(tasks, u) /\ Has(tasks[u], id) THEN SaveErr(outcome)
  ELSE ErrTaskNotFoundForUser

\* CompleteTask that also blanks the title of the task
JsCompleteTask_Retitle(u, id, outcome) ==
  /\ backend = "json" /\ up
  /\ IF Has(tasks, u) /\ Has(tasks[u], id)
     THEN /\ tasks' = MapPut(tasks, u,
                        MapPut(tasks[u], id, [tasks[u][id] EXCEPT !.Completed = TRUE,
                                                                  !.Title = EmptyStr]))
          /\ saveToFile(outcome)
          /\ last' = [Call("CompleteTask", u, id, JsCompleteTaskErr(u, id, outcome), ZeroTask)
                        EXCEPT !.saved = (outcome = "ok")]
     ELSE /\ outcome = "ok"
          /\ UNCHANGED <<tasks, file, fails, last>>
  /\ UNCHANGED <<backend, idSeq, reusableIds, up, conc, twin, http>>

JsCompleteTask(u, id, outcome) ==
  /\ backend = "json" /\ up
  /\ IF Has(tasks, u) /\ Has(tasks[u], id)
     THEN /\ tasks' = MapPut(tasks, u,
                        MapPut(tasks[u], id, [tasks[u][id] EXCEPT !.Completed = TRUE]))
          /\ saveToFile(outcome)
          /\ last' = [Call("CompleteTask", u, id, JsCompleteTaskErr(u, id, outcome), ZeroTask)
                        EXCEPT !.saved = (outcome = "ok")]
     ELSE /\ outcome = "ok"
          /\ UNCHANGED <<tasks, file, fails, last>>
  /\ UNCHANGED <<backend, idSeq, reusableIds, up, conc, twin, http>>

\* loadFromFile: what it makes of a document
LoadedTasks(doc) == Decode(doc)
UsedIds(ts) == UNION {DOMAIN ts[u] : u \in DOMAIN ts}
\* the number of tasks found, taken for the highest identifier
HighestID_Count(ts) == Cardinality(UsedIds(ts))
HighestID(ts) ==
  IF UsedIds(ts) = {} THEN 0
  ELSE CHOOSE m \in UsedIds(ts) : \A i \in UsedIds(ts) : i <= m
\* a scan that puts every identifier below the highest one on the free-list
MissingIds_All(id, highestID, used) ==
  [i \in 1 .. (highestID - id) |-> id + i - 1]
\* for id := 1; id < highestID; id++ { if !usedIds[id] { append } }
RECURSIVE MissingIds(_, _, _)
MissingIds(id, highestID, used) ==
  IF id >= highestID THEN << >>
  ELSE (IF id \in used THEN << >> ELSE <<id>>) \o MissingIds(id + 1, highestID, used)

\* a restart that carries the counter over instead of rebuilding it
Restart_KeepSeq ==
  /\ backend = "json" /\ up
  /\ IF file = Corrupt
     THEN /\ up' = FALSE
          /\ UNCHANGED <<tasks, idSeq, reusableIds>>
     ELSE /\ tasks' = LoadedTasks(file.doc)
          /\ idSeq' = idSeq
          /\ reusableIds' = MissingIds(1, HighestID(tasks'), UsedIds(tasks'))
          /\ up' = TRUE
  /\ last' = Call("restart", "", 0, Nil, ZeroTask)
  /\ UNCHANGED <<backend, file, fails, conc, twin, http>>
\* the process is started again on the file it left: newJSONTaskStore
Restart ==
  /\ backend = "json" /\ up
  /\ IF file = Corrupt
     THEN /\ up' = FALSE
          /\ UNCHANGED <<tasks, idSeq, reusableIds>>
     ELSE /\ tasks' = LoadedTasks(file.doc)
          /\ idSeq' = HighestID(tasks')
          /\ reusableIds' = MissingIds(1, HighestID(tasks'), UsedIds(tasks'))
          /\ up' = TRUE
  /\ last' = Call("restart", "", 0, Nil, ZeroTask)
  /\ UNCHANGED <<backend, file, fails, conc, twin, http>>

\* ------------------------------------------------------------------ the operations as functions
\* The memory of a store as a value, and each operation as the function from
\* the store it reads to the store it writes and the values it returns.
StoreOf == [tasks |-> tasks, idSeq |-> idSeq, reusableIds |-> reusableIds]
\* localTaskStore(): no task, idSeq 0, no reusable identifier
NewStore == [tasks |-> EmptyMap, idSeq |-> 0, reusableIds |-> << >>]
Result(s, err, task) == [s |-> s, err |-> err, task |-> task]

\* the identifier AddTask takes, and the allocator fields it leaves
Alloc(s) ==
  IF Len(s.reusableIds) > 0
  THEN [id |-> s.reusableIds[1], idSeq |-> s.idSeq, reusableIds |-> Tail(s.reusableIds)]
  ELSE [id |-> s.idSeq + 1, idSeq |-> s.idSeq + 1, reusableIds |-> s.reusableIds]

MemAddTaskOf(s, u, title, description) ==
  LET a == Alloc(s)
      task == NewTask(a.id, title, description)
      inner == IF Has(s.tasks, a.id) THEN s.tasks[a.id] ELSE EmptyMap
  IN Result([tasks |-> MapPut(s.tasks, a.id, MapPut(inner, u, task)),
             idSeq |-> a.idSeq, reusableIds |-> a.reusableIds], Nil, task)

\* RemoveTask that reclaims the identifier of a task of another user
MemRemoveTaskOf_Reclaim(s, u, id) ==
  IF ~Has(s.tasks, id) THEN Result(s, ErrTaskNotFound, ZeroTask)
  ELSE IF ~Has(s.tasks[id], u)
  THEN Result([s EXCEPT !.reusableIds = SortInts(Append(s.reusableIds, id))],
              ErrTaskNotFoundForUser, ZeroTask)
  ELSE LET inner == MapDel(s.tasks[id], u)
       IN Result([tasks |-> IF DOMAIN inner = {} THEN MapDel(s.tasks, id)
                            ELSE MapPut(s.tasks, id, inner),
                  idSeq |-> s.idSeq,
                  reusableIds |-> SortInts(Append(s.reusableIds, id))], Nil, ZeroTask)

MemRemoveTaskOf(s, u, id) ==
  IF ~Has(s.tasks, id) THEN Result(s, ErrTaskNotFound, ZeroTask)
  ELSE IF ~Has(s.tasks[id], u) THEN Result(s, ErrTaskNotFoundForUser, ZeroTask)
  ELSE LET inner == MapDel(s.tasks[id], u)
       IN Result([tasks |-> IF DOMAIN inner = {} THEN MapDel(s.tasks, id)
                            ELSE MapPut(s.tasks, id, inner),
                  idSeq |-> s.idSeq,
                  reusableIds |-> SortInts(Append(s.reusableIds, id))], Nil, ZeroTask)

MemGetTaskOf(s, u, id) ==
  IF Has(s.tasks, id) /\ Has(s.tasks[id], u)
  THEN Result(s, Nil, s.tasks[id][u])
  ELSE Result(s, ErrTaskNotFoundForUser, ZeroTask)

\* ListTasks that lists the tasks of every user
MemListTasksOf_AnyUser(s, u) ==
  {[i \in DOMAIN o |-> s.tasks[o[i]][CHOOSE w \in DOMAIN s.tasks[o[i]] : TRUE]] :
     o \in Orders(DOMAIN s.tasks)}

MemListTasksOf(s, u) ==
  {[i \in DOMAIN o |-> s.tasks[o[i]][u]] :
     o \in Orders({id \in DOMAIN s.tasks : Has(s.tasks[id], u)})}

\* CompleteTask that sets the flag in its copy of the task and does not put
\* the copy back in the map
MemCompleteTaskOf_Copy(s, u, id) ==
  IF Has(s.tasks, id) /\ Has(s.tasks[id], u)
  THEN Result(s, Nil, ZeroTask)
  ELSE Result(s, ErrTaskNotFoundForUser, ZeroTask)

MemCompleteTaskOf(s, u, id) ==
  IF Has(s.tasks, id) /\ Has(s.tasks[id], u)
  THEN Result([s EXCEPT !.tasks = MapPut(s.tasks, id,
                 MapPut(s.tasks[id], u, [s.tasks[id][u] EXCEPT !.Completed = TRUE]))],
              Nil, ZeroTask)
  ELSE Result(s, ErrTaskNotFoundForUser, ZeroTask)

\* the file store, up to its save step

\* AddTask that starts the collection again from the tasks of its caller
JsAddTaskOf_Alone(s, u, title, description) ==
  LET a == Alloc(s)
      task == NewTask(a.id, title, description)
      inner == IF Has(s.tasks, u) THEN s.tasks[u] ELSE EmptyMap
  IN Result([tasks |-> MapPut(EmptyMap, u, MapPut(inner, a.id, task)),
             idSeq |-> a.idSeq, reusableIds |-> a.reusableIds], Nil, task)

JsAddTaskOf(s, u, title, description) ==
  LET a == Alloc(s)
      task == NewTask(a.id, title, description)
      inner == IF Has(s.tasks, u) THEN s.tasks[u] ELSE EmptyMap
  IN Result([tasks |-> MapPut(s.tasks, u, MapPut(inner, a.id, task)),
             idSeq |-> a.idSeq, reusableIds |-> a.reusableIds], Nil, task)

JsRemoveTaskOf(s, u, id) ==
  IF ~Has(s.tasks, u) THEN Result(s, ErrUserNotFound, ZeroTask)
  ELSE IF ~Has(s.tasks[u], id) THEN Result(s, ErrTaskNotFoundForUser, ZeroTask)
  ELSE LET userTasks == MapDel(s.tasks[u], id)
       IN Result([tasks |-> IF DOMAIN userTasks = {} THEN MapDel(s.tasks, u)
                            ELSE MapPut(s.tasks, u, userTasks),
                  idSeq |-> s.idSeq,
                  reusableIds |-> Append(s.reusableIds, id)], Nil, ZeroTask)

\* GetTask that marks the task it returns as completed
JsGetTaskOf_Complete(s, u, id) ==
  IF Has(s.tasks, u) /\ Has(s.tasks[u], id)
  THEN Result([s EXCEPT !.tasks[u][id].Completed = TRUE], Nil, s.tasks[u][id])
  ELSE Result(s, ErrTaskNotFoundForUser, ZeroTask)

JsGetTaskOf(s, u, id) ==
  IF Has(s.tasks, u) /\ Has(s.tasks[u], id)
  THEN Result(s, Nil, s.tasks[u][id])
  ELSE Result(s, ErrTaskNotFoundForUser, ZeroTask)

JsListTasksOf(s, u) ==
  {[i \in DOMAIN o |-> s.tasks[u][o[i]]] :
     o \in Orders(IF Has(s.tasks, u) THEN DOMAIN s.tasks[u] ELSE {})}

JsCompleteTaskOf(s, u, id) ==
  IF Has(s.tasks, u) /\ Has(s.tasks[u], id)
  THEN Result([s EXCEPT !.tasks = MapPut(s.tasks, u,
                 MapPut(s.tasks[u], id, [s.tasks[u][id] EXCEPT !.Completed = TRUE]))],
              Nil, ZeroTask)
  ELSE Result(s, ErrTaskNotFoundForUser, ZeroTask)

\* ------------------------------------------------------------------ specification
Goroutines == 1 .. NumGoroutines
NoLocals == [user |-> "", title |-> EmptyStr, description |-> EmptyStr, reg |-> 0, id |-> 0]
ConcIdle ==
  /\ mutex = 0
  /\ pc = [g \in Goroutines |-> "unborn"]
  /\ loc = [g \in Goroutines |-> NoLocals]
  /\ rets = [g \in Goroutines |-> 0]
  /\ spawnLive = 0

\* localTaskStore(), or newJSONTaskStore on a path where no file exists yet
Init ==
  /\ backend \in {"mem", "json"}
  /\ tasks = EmptyMap
  /\ idSeq = 0
  /\ reusableIds = << >>
  /\ file = IF backend = "json" THEN EmptyDocument ELSE NoFile
  /\ up = TRUE
  /\ fails = 0
  /\ last = NoCall
  /\ ConcIdle
  /\ twin = NewStore
  /\ HttpIdle

Next ==
  \/ \E u \in Users, t \in Titles, d \in Descriptions : MemAddTask(u, t, d)
  \/ \E u \in Users, id \in Ids : MemRemoveTask(u, id)
  \/ \E u \in Users : MemListTasks(u)
  \/ \E u \in Users, id \in Ids : MemGetTask(u, id)
  \/ \E u \in Users, id \in Ids : MemCompleteTask(u, id)
  \/ \E u \in Users, t \in Titles, d \in Descriptions, o \in SaveOutcomes :
       JsAddTask(u, t, d, o)
  \/ \E u \in Users, id \in Ids, o \in SaveOutcomes : JsRemoveTask(u, id, o)
  \/ \E u \in Users : JsListTasks(u)
  \/ \E u \in Users, id \in Ids : JsGetTask(u, id)
  \/ \E u \in Users, id \in Ids, o \in SaveOutcomes : JsCompleteTask(u, id, o)
  \/ Restart

Spec == Init /\ [][Next]_vars

\* ------------------------------------------------------------------ concurrent AddTask
\* NumGoroutines goroutines each call AddTask once on one inMemoryTaskStore
\* (TestAddTaskConcurrent), after any sequential history of the store.  Each
\* access of a field of the store is one step.
store == <<backend, tasks, idSeq, reusableIds, file, up, fails, last>>

\* the go statements: every goroutine is started, none has run yet
Spawn ==
  /\ backend = "mem" /\ \A g \in Goroutines : pc[g] = "unborn"
  /\ pc' = [g \in Goroutines |-> "ready"]
  /\ spawnLive' = Cardinality(DOMAIN tasks)
  /\ UNCHANGED <<store, mutex, loc, rets, twin, http>>

\* a Lock that does not wait for the holder
MutexLock_NoWait(g) == mutex' = g

\* store.mutex.Lock()
MutexLock(g) == mutex = 0 /\ mutex' = g

\* AddTask is entered with its arguments and takes the lock
AddLock(g, u, title, description) ==
  /\ pc[g] = "ready"
  /\ MutexLock(g)
  /\ loc' = [loc EXCEPT ![g] = [NoLocals EXCEPT !.user = u, !.title = title,
                                              !.description = description]]
  /\ pc' = [pc EXCEPT ![g] = "locked"]
  /\ UNCHANGED <<store, rets, spawnLive, twin, http>>

\* len(store.reusableIds) > 0: id = store.reusableIds[0]
AddReuseRead(g) ==
  /\ pc[g] = "locked" /\ Len(reusableIds) > 0
  /\ loc' = [loc EXCEPT ![g].id = reusableIds[1]]
  /\ pc' = [pc EXCEPT ![g] = "pop"]
  /\ UNCHANGED <<store, mutex, rets, spawnLive, twin, http>>

\* store.reusableIds = store.reusableIds[1:], which panics on an empty slice
AddReusePop(g) ==
  /\ pc[g] = "pop"
  /\ IF Len(reusableIds) > 0
     THEN reusableIds' = Tail(reusableIds) /\ pc' = [pc EXCEPT ![g] = "store"]
     ELSE reusableIds' = reusableIds /\ pc' = [pc EXCEPT ![g] = "panic"]
  /\ UNCHANGED <<backend, tasks, idSeq, file, up, fails, last, mutex, loc, rets, spawnLive, twin, http>>

\* store.idSeq++ reads the counter ...
AddSeqRead(g) ==
  /\ pc[g] = "locked" /\ Len(reusableIds) = 0
  /\ loc' = [loc EXCEPT ![g].reg = idSeq]
  /\ pc' = [pc EXCEPT ![g] = "inc"]
  /\ UNCHANGED <<store, mutex, rets, spawnLive, twin, http>>

\* ... and writes it back incremented
AddSeqWrite(g) ==
  /\ pc[g] = "inc"
  /\ idSeq' = loc[g].reg + 1
  /\ pc' = [pc EXCEPT ![g] = "seqid"]
  /\ UNCHANGED <<backend, tasks, reusableIds, file, up, fails, last, mutex, loc, rets, spawnLive, twin, http>>

\* id = store.idSeq
AddSeqId(g) ==
  /\ pc[g] = "seqid"
  /\ loc' = [loc EXCEPT ![g].id = idSeq]
  /\ pc' = [pc EXCEPT ![g] = "store"]
  /\ UNCHANGED <<store, mutex, rets, spawnLive, twin, http>>

\* the task this goroutine's AddTask builds
AddedTask(g) == NewTask(loc[g].id, loc[g].title, loc[g].description)

\* store.tasks[id][userName] = task, making the inner map when it is nil
AddStore(g) ==
  /\ pc[g] = "store"
  /\ LET id == loc[g].id
         inner == IF Has(tasks, id) THEN tasks[id] ELSE EmptyMap
     IN tasks' = MapPut(tasks, id, MapPut(inner, loc[g].user, AddedTask(g)))
  /\ pc' = [pc EXCEPT ![g] = "unlock"]
  /\ UNCHANGED <<backend, idSeq, reusableIds, file, up, fails, last, mutex, loc, rets, spawnLive, twin, http>>

\* return task, and the deferred store.mutex.Unlock()
AddUnlock(g) ==
  /\ pc[g] = "unlock"
  /\ mutex' = 0
  /\ rets' = [rets EXCEPT ![g] = loc[g].id]
  /\ pc' = [pc EXCEPT ![g] = "done"]
  /\ UNCHANGED <<store, loc, spawnLive, twin, http>>

\* the sequential history before the goroutines start
Setup ==
  /\ \A g \in Goroutines : pc[g] = "unborn"
  /\ \/ \E u \in Users, t \in Titles, d \in Descriptions : MemAddTask(u, t, d)
     \/ \E u \in Users, id \in Ids : MemRemoveTask(u, id)

InitAdd == Init /\ backend = "mem"

NextAdd ==
  \/ Setup
  \/ Spawn
  \/ \E g \in Goroutines, u \in Users : AddLock(g, u, TitleT, EmptyStr)
  \/ \E g \in Goroutines : AddReuseRead(g)
  \/ \E g \in Goroutines : AddReusePop(g)
  \/ \E g \in Goroutines : AddSeqRead(g)
  \/ \E g \in Goroutines : AddSeqWrite(g)
  \/ \E g \in Goroutines : AddSeqId(g)
  \/ \E g \in Goroutines : AddStore(g)
  \/ \E g \in Goroutines : AddUnlock(g)

SpecAdd == InitAdd /\ [][NextAdd]_vars

\* ------------------------------------------------------------------ concurrent calls
\* The goroutines each make one call, any of the five, on one store of either
\* backend, after any sequential history.  A call locks the mutex, reads the
\* store, writes what it computed from what it read, saves (file backend,
\* after a change), and returns through the deferred Unlock.
Ops == {"AddTask", "RemoveTask", "ListTasks", "GetTask", "CompleteTask"}
OpLocals(op, u, id) ==
  [op |-> op, user |-> u, id |-> id, title |-> EmptyStr, description |-> TitleT,
   read |-> NewStore, err |-> Nil, task |-> ZeroTask, list |-> << >>, saved |-> TRUE]

\* what the call of goroutine g makes of the store s: the store it leaves
\* and the error and task it returns
Apply(g, s) ==
  LET c == loc[g]
  IN CASE c.op = "AddTask" ->
            IF backend = "mem" THEN MemAddTaskOf(s, c.user, c.title, c.description)
            ELSE JsAddTaskOf(s, c.user, c.title, c.description)
       [] c.op = "RemoveTask" ->
            IF backend = "mem" THEN MemRemoveTaskOf(s, c.user, c.id)
            ELSE JsRemoveTaskOf(s, c.user, c.id)
       [] c.op = "CompleteTask" ->
            IF backend = "mem" THEN MemCompleteTaskOf(s, c.user, c.id)
            ELSE JsCompleteTaskOf(s, c.user, c.id)
       [] c.op = "GetTask" ->
            IF backend = "mem" THEN MemGetTaskOf(s, c.user, c.id)
            ELSE JsGetTaskOf(s, c.user, c.id)
       [] OTHER -> Result(s, Nil, ZeroTask)
\* the slices its ListTasks may return on the store s
ListOf(g, s) ==
  IF loc[g].op # "ListTasks" THEN {<< >>}
  ELSE IF backend = "mem" THEN MemListTasksOf(s, loc[g].user)
  ELSE JsListTasksOf(s, loc[g].user)

\* the goroutines that make a call
Callers == 1 .. NumCallers

\* the tasks added, one call after the other, before the goroutines start
OpsSetup ==
  /\ \A g \in Goroutines : pc[g] = "unborn"
  /\ \/ \E u \in Users : MemAddTask(u, EmptyStr, TitleT)
     \/ \E u \in Users, o \in SaveOutcomes : JsAddTask(u, EmptyStr, TitleT, o)

\* the go statements
OpsSpawn ==
  /\ \A g \in Goroutines : pc[g] = "unborn"
  /\ pc' = [g \in Goroutines |-> IF g \in Callers THEN "ready" ELSE "unborn"]
  /\ spawnLive' = Cardinality(LiveIds)
  /\ UNCHANGED <<store, mutex, loc, rets, twin, http>>

\* the call is entered with its arguments: store.mutex.Lock()
Enter(g, op, u, id) ==
  /\ pc[g] = "ready" /\ up
  /\ (op \in {"AddTask", "ListTasks"}) <=> (id = 0)
  /\ op = "AddTask" => AllocGuard
  /\ MutexLock(g)
  /\ loc' = [loc EXCEPT ![g] = OpLocals(op, u, id)]
  /\ pc' = [pc EXCEPT ![g] = "locked"]
  /\ UNCHANGED <<store, rets, spawnLive, twin, http>>

\* a call that reads the store and then lets the mutex go
ReadStore_Unlock(g) ==
  /\ pc[g] = "locked"
  /\ loc' = [loc EXCEPT ![g].read = StoreOf]
  /\ pc' = [pc EXCEPT ![g] = "read"]
  /\ mutex' = 0
  /\ UNCHANGED <<store, rets, spawnLive, twin, http>>

\* the reads of store.tasks, store.idSeq and store.reusableIds
ReadStore(g) ==
  /\ pc[g] = "locked"
  /\ loc' = [loc EXCEPT ![g].read = StoreOf]
  /\ pc' = [pc EXCEPT ![g] = "read"]
  /\ UNCHANGED <<store, mutex, rets, spawnLive, twin, http>>

\* the calls of the file store that reach store.saveToFile(): AddTask always,
\* RemoveTask and CompleteTask when they found the task
Saves(g, r) ==
  backend = "json" /\ r.err = Nil /\ loc[g].op \in {"AddTask", "RemoveTask", "CompleteTask"}

\* a file store whose calls return without saving
WriteStore_NoSave(g) ==
  /\ pc[g] = "read"
  /\ LET r == Apply(g, loc[g].read)
     IN /\ tasks' = r.s.tasks /\ idSeq' = r.s.idSeq /\ reusableIds' = r.s.reusableIds
        /\ \E l \in ListOf(g, loc[g].read) :
             loc' = [loc EXCEPT ![g].err = r.err, ![g].task = r.task, ![g].list = l]
        /\ pc' = [pc EXCEPT ![g] = "unlock"]
  /\ UNCHANGED <<backend, file, up, fails, last, mutex, rets, spawnLive, twin, http>>

\* the writes of the call, and the values it will return
WriteStore(g) ==
  /\ pc[g] = "read"
  /\ LET r == Apply(g, loc[g].read)
     IN /\ tasks' = r.s.tasks /\ idSeq' = r.s.idSeq /\ reusableIds' = r.s.reusableIds
        /\ \E l \in ListOf(g, loc[g].read) :
             loc' = [loc EXCEPT ![g].err = r.err, ![g].task = r.task, ![g].list = l]
        /\ pc' = [pc EXCEPT ![g] = IF Saves(g, r) THEN "save" ELSE "unlock"]
  /\ UNCHANGED <<backend, file, up, fails, last, mutex, rets, spawnLive, twin, http>>

\* store.saveToFile(), whose error AddTask logs and the others return
SaveFile(g, outcome) ==
  /\ pc[g] = "save"
  /\ UNCHANGED <<tasks, idSeq, reusableIds>>
  /\ saveToFile(outcome)
  /\ loc' = [loc EXCEPT ![g].saved = (outcome = "ok"),
                        ![g].err = IF loc[g].op = "AddTask" THEN Nil ELSE SaveErr(outcome)]
  /\ pc' = [pc EXCEPT ![g] = "unlock"]
  /\ UNCHANGED <<backend, up, last, mutex, rets, spawnLive, twin, http>>

\* return, and the deferred store.mutex.Unlock()
Return(g) ==
  /\ pc[g] = "unlock"
  /\ mutex' = 0
  /\ loc' = [loc EXCEPT ![g] = NoLocals]
  /\ pc' = [pc EXCEPT ![g] = "done"]
  /\ UNCHANGED <<store, rets, spawnLive, twin, http>>

NextOps ==
  \/ OpsSetup
  \/ OpsSpawn
  \/ \E g \in Callers, op \in Ops, u \in Users, id \in 0 .. MaxId : Enter(g, op, u, id)
  \/ \E g \in Callers : ReadStore(g)
  \/ \E g \in Callers : WriteStore(g)
  \/ \E g \in Callers, o \in SaveOutcomes : SaveFile(g, o)
  \/ \E g \in Callers : Return(g)

SpecOps == Init /\ [][NextOps]_vars

\* ------------------------------------------------------------------ the two backends side by side
\* One jsonTaskStore (the store variables, every save succeeding) and one
\* inMemoryTaskStore (twin) are given the same calls, one call after the other.
TwinAllocGuard == Len(twin.reusableIds) > 0 \/ twin.idSeq < MaxId

PairAddTask(u, title, description) ==
  /\ backend = "json" /\ up /\ AllocGuard /\ TwinAllocGuard
  /\ LET j == JsAddTaskOf(StoreOf, u, title, description)
     IN /\ tasks' = j.s.tasks /\ idSeq' = j.s.idSeq /\ reusableIds' = j.s.reusableIds
        /\ saveToFile("ok")
        /\ last' = Call("AddTask", u, j.task.ID, Nil, j.task)
  /\ twin' = MemAddTaskOf(twin, u, title, description).s
  /\ UNCHANGED <<backend, up, conc, http>>

PairRemoveTask(u, id) ==
  /\ backend = "json" /\ up
  /\ LET j == JsRemoveTaskOf(StoreOf, u, id)
     IN /\ tasks' = j.s.tasks /\ reusableIds' = j.s.reusableIds
        /\ IF j.err = Nil
           THEN saveToFile("ok") /\ last' = Call("RemoveTask", u, id, Nil, ZeroTask)
           ELSE UNCHANGED <<file, fails, last>>
  /\ twin' = MemRemoveTaskOf(twin, u, id).s
  /\ UNCHANGED <<backend, idSeq, up, conc, http>>

PairCompleteTask(u, id) ==
  /\ backend = "json" /\ up
  /\ LET j == JsCompleteTaskOf(StoreOf, u, id)
     IN /\ tasks' = j.s.tasks
        /\ IF j.err = Nil
           THEN saveToFile("ok") /\ last' = Call("CompleteTask", u, id, Nil, ZeroTask)
           ELSE UNCHANGED <<file, fails, last>>
  /\ twin' = MemCompleteTaskOf(twin, u, id).s
  /\ UNCHANGED <<backend, idSeq, reusableIds, up, conc, http>>

PairGetTask(u, id) ==
  /\ backend = "json" /\ up
  /\ UNCHANGED vars

PairListTasks(u) ==
  /\ backend = "json" /\ up
  /\ UNCHANGED vars

InitPair == Init /\ backend = "json"

NextPair ==
  \/ \E u \in Users, t \in Titles, d \in Descriptions : PairAddTask(u, t, d)
  \/ \E u \in Users, id \in Ids : PairRemoveTask(u, id)
  \/ \E u \in Users, id \in Ids : PairCompleteTask(u, id)
  \/ \E u \in Users, id \in Ids : PairGetTask(u, id)
  \/ \E u \in Users : PairListTasks(u)

SpecPair == InitPair /\ [][NextPair]_vars

\* ------------------------------------------------------------------ concurrent users
\* Each goroutine is one user, who makes TasksPerUser AddTask calls on one new
\* store of either backend and then lists its tasks
\* (TestConcurrentAccessMemoryStore, TestConcurrentAccessJSONStore), or who
\* completes each task it has added before it adds the next
\* (TestConcurrentTaskCompletionMemoryStore,
\* TestConcurrentTaskCompletionJSONStore).  A call is made of the steps of
\* the concurrent calls above.
Scripts == {"access", "completion"}
\* one goroutine per user: userName := fmt.Sprintf("user%d", i)
UserGoroutines == 1 .. Cardinality(Users)
UserNames == <<"alice", "bob">>
UserName(g) == UserNames[g]

\* the locals of a goroutine: which test it runs, how many AddTask calls of
\* it have returned, and the locals of the call it is making
UserLocals(script, n, op, u, id) ==
  [script |-> script, n |-> n,
   op |-> op, user |-> u, id |-> id, title |-> EmptyStr, description |-> TitleT,
   read |-> NewStore, err |-> Nil, task |-> ZeroTask, list |-> << >>, saved |-> TRUE]

\* the go statements of one of the tests: every user goroutine is started
UsersSpawn ==
  /\ \A g \in Goroutines : pc[g] = "unborn"
  /\ pc' = [g \in Goroutines |-> IF g \in UserGoroutines THEN "ready" ELSE "unborn"]
  /\ \E script \in Scripts :
       loc' = [g \in Goroutines |->
                 IF g \in UserGoroutines THEN UserLocals(script, 0, "none", UserName(g), 0)
                 ELSE NoLocals]
  /\ spawnLive' = Cardinality(LiveIds)
  /\ UNCHANGED <<store, mutex, rets, twin, http>>

\* the call the goroutine makes next: CompleteTask on the task it has just
\* added, AddTask while it has tasks to add, ListTasks after the last one
NextOp(g) ==
  IF loc[g].script = "completion" /\ loc[g].op = "AddTask" THEN "CompleteTask"
  ELSE IF loc[g].n < TasksPerUser THEN "AddTask"
  ELSE "ListTasks"
\* the call the goroutine is making is the last one of its loop
LastCall(g) ==
  /\ loc[g].n = TasksPerUser
  /\ loc[g].op = IF loc[g].script = "completion" THEN "CompleteTask" ELSE "ListTasks"

\* the next call of the goroutine is entered: store.mutex.Lock()
UserCall(g) ==
  /\ pc[g] = "ready"
  /\ MutexLock(g)
  /\ loc' = [loc EXCEPT ![g] =
               UserLocals(loc[g].script, loc[g].n, NextOp(g), loc[g].user,
                          IF NextOp(g) = "CompleteTask" THEN rets[g] ELSE 0)]
  /\ pc' = [pc EXCEPT ![g] = "locked"]
  /\ UNCHANGED <<store, rets, spawnLive, twin, http>>

\* the call returns through the deferred store.mutex.Unlock(); the goroutine
\* keeps the ID of the task an AddTask returned, and ends (wg.Done()) after
\* the last call of its loop
UserReturn(g) ==
  /\ pc[g] = "unlock"
  /\ mutex' = 0
  /\ rets' = [rets EXCEPT ![g] = IF loc[g].op = "AddTask" THEN loc[g].task.ID ELSE @]
  /\ IF LastCall(g)
     THEN /\ loc' = [loc EXCEPT ![g] = NoLocals]
          /\ pc' = [pc EXCEPT ![g] = "done"]
     ELSE /\ loc' = [loc EXCEPT ![g].n = IF loc[g].op = "AddTask" THEN @ + 1 ELSE @]
          /\ pc' = [pc EXCEPT ![g] = "ready"]
  /\ UNCHANGED <<store, spawnLive, twin, http>>

\* a save step of these tests: the document is written, or the file is
\* truncated and the write fails (what the call returns is the same when
\* os.Create fails)
UserSaveOutcomes == {"ok", "write failed"}

NextUsers ==
  \/ UsersSpawn
  \/ \E g \in UserGoroutines : UserCall(g)
  \/ \E g \in UserGoroutines : ReadStore(g)
  \/ \E g \in UserGoroutines : WriteStore(g)
  \/ \E g \in UserGoroutines, o \in UserSaveOutcomes : SaveFile(g, o)
  \/ \E g \in UserGoroutines : UserReturn(g)

SpecUsers == Init /\ [][NextUsers]_vars

\* ------------------------------------------------------------------ startup of the file backend
\* The program is started with -store json on a path where there is no file,
\* or a file that is no JSON document, serves calls, exits and is started
\* again on the file it left.
CreateOutcomes == {"ok", "create failed", "write failed"}
OpenOutcomes == {"ok", "open failed"}

\* createEmptyJSONFile that creates the file and writes nothing
createEmptyJSONFile_Blank(outcome) ==
  CASE outcome = "create failed" -> NoFile
    [] OTHER -> Corrupt

\* createEmptyJSONFile: os.Create fails (no file), or the file is created
\* and WriteString fails (an empty file, which is no JSON document), or
\* "{}" is written
createEmptyJSONFile(outcome) ==
  CASE outcome = "ok" -> EmptyDocument
    [] outcome = "create failed" -> NoFile
    [] OTHER -> Corrupt

\* newJSONTaskStore: the file is created when os.Stat finds none, then
\* loaded; os.Exit(1) when the creation, os.Open or the decoding fails
newJSONTaskStore(create, open) ==
  /\ backend = "json" /\ ~up
  /\ file # NoFile => create = "ok"
  /\ create # "ok" => open = "ok"
  /\ LET found == IF file = NoFile THEN createEmptyJSONFile(create) ELSE file
         err == IF create = "ok" /\ open = "ok" /\ found.kind = "document"
                THEN Nil ELSE ErrIO
     IN /\ file' = found
        /\ up' = (err = Nil)
        /\ IF err = Nil
           THEN /\ tasks' = LoadedTasks(found.doc)
                /\ idSeq' = HighestID(tasks')
                /\ reusableIds' = MissingIds(1, HighestID(tasks'), UsedIds(tasks'))
           ELSE UNCHANGED <<tasks, idSeq, reusableIds>>
        /\ last' = Call("start", "", 0, err, ZeroTask)
  /\ UNCHANGED <<backend, fails, conc, twin, http>>

\* the exit command: os.Exit(0), and the store is gone with the process
Exit ==
  /\ backend = "json" /\ up
  /\ up' = FALSE
  /\ tasks' = EmptyMap /\ idSeq' = 0 /\ reusableIds' = << >>
  /\ last' = Call("exit", "", 0, Nil, ZeroTask)
  /\ UNCHANGED <<backend, file, fails, conc, twin, http>>

InitBoot ==
  /\ backend = "json"
  /\ tasks = EmptyMap
  /\ idSeq = 0
  /\ reusableIds = << >>
  /\ file \in {NoFile, Corrupt}
  /\ up = FALSE
  /\ fails = 0
  /\ last = NoCall
  /\ ConcIdle
  /\ twin = NewStore
  /\ HttpIdle

NextBoot ==
  \/ \E c \in CreateOutcomes, o \in OpenOutcomes : newJSONTaskStore(c, o)
  \/ Exit
  \/ \E u \in Users, t \in Titles, d \in Descriptions, o \in SaveOutcomes :
       JsAddTask(u, t, d, o)
  \/ \E u \in Users, id \in Ids, o \in SaveOutcomes : JsRemoveTask(u, id, o)
  \/ \E u \in Users : JsListTasks(u)
  \/ \E u \in Users, id \in Ids : JsGetTask(u, id)
  \/ \E u \in Users, id \in Ids, o \in SaveOutcomes : JsCompleteTask(u, id, o)

SpecBoot == InitBoot /\ [][NextBoot]_vars

\* ------------------------------------------------------------------ UserStore
Passwords == {"secret", "guess"}
NewUser(username, password) == [Username |-> username, Password |-> password]
ErrUserExists == "user already exists"
ErrInvalidPassword == "invalid password"
\* assignment to an entry in a nil map
Panic == "panic"

\* encoder.Encode(store.users) and json.NewDecoder(file).Decode(&users)
EncodeUsers(m) ==
  [u \in DOMAIN m |-> [username |-> m[u].Username, password |-> m[u].Password]]
DecodeUsers(doc) ==
  [u \in DOMAIN doc |-> NewUser(doc[u].username, doc[u].password)]

\* saveUsersToFile: os.Create fails (file untouched), or the file is
\* truncated and the write fails, or the whole document is written
saveUsersToFile(outcome) ==
  usersFile' = CASE outcome = "ok" -> Document(EncodeUsers(users'))
                 [] outcome = "create failed" -> usersFile
                 [] OTHER -> Corrupt

\* the error AddUser returns
AddUserErr(username, outcome) ==
  IF Has(users, username) THEN ErrUserExists
  ELSE IF usersNil THEN Panic
  ELSE SaveErr(outcome)

\* AddUser that overwrites the password of a registered user
AddUserCall_Overwrite(username, password, outcome) ==
  /\ userMutex = 0
  /\ IF usersNil
     THEN outcome = "ok" /\ UNCHANGED <<users, usersFile>>
     ELSE /\ users' = MapPut(users, username, NewUser(username, password))
          /\ saveUsersToFile(outcome)
  /\ UNCHANGED <<usersNil, userMutex>>

\* AddUser, from Lock to the deferred Unlock: the user is put in the map,
\* then the map is saved
AddUserCall(username, password, outcome) ==
  /\ userMutex = 0
  /\ IF Has(users, username) \/ usersNil
     THEN outcome = "ok" /\ UNCHANGED <<users, usersFile>>
     ELSE /\ users' = MapPut(users, username, NewUser(username, password))
          /\ saveUsersToFile(outcome)
  /\ UNCHANGED <<usersNil, userMutex>>

\* the error CheckPassword returns
CheckPasswordErr(username, password) ==
  IF ~Has(users, username) THEN ErrUserNotFound
  ELSE IF users[username].Password # password THEN ErrInvalidPassword
  ELSE Nil

\* the slices ListUsers may return
ListUsersRet ==
  {[i \in DOMAIN o |-> users[o[i]]] : o \in Orders(DOMAIN users)}

\* ------------------------------------------------------------------ startup and the user store
\* main: initializeUserStore, the choice of the task store (-store memory),
\* initializeUserStore once more, and then the server and the command line,
\* whose calls of the user store are taken one at a time.
Main == 1
MainLocals(absent) ==
  [user |-> "", title |-> EmptyStr, description |-> EmptyStr, reg |-> 0, id |-> 0,
   absent |-> absent]

\* initializeUserStore: users.json is created when os.Stat finds none, and
\* loaded when there is one; os.Exit(1) when that fails
initializeUserStore(create, open) ==
  /\ up /\ pc[Main] \in {"init1", "init2"}
  /\ usersFile # NoFile => create = "ok"
  /\ usersFile = NoFile => open = "ok"
  /\ LET err == IF usersFile = NoFile
                THEN (IF create = "ok" THEN Nil ELSE ErrIO)
                ELSE (IF open = "ok" /\ usersFile.kind = "document" THEN Nil ELSE ErrIO)
     IN /\ usersFile' = IF usersFile = NoFile THEN createEmptyJSONFile(create)
                        ELSE usersFile
        /\ IF usersFile # NoFile /\ err = Nil
           THEN users' = DecodeUsers(usersFile.doc) /\ usersNil' = FALSE
           ELSE UNCHANGED <<users, usersNil>>
        /\ up' = (err = Nil)
        /\ last' = Call("initializeUserStore", "", 0, err, ZeroTask)
        /\ pc' = IF err # Nil THEN pc
                 ELSE [pc EXCEPT ![Main] = IF pc[Main] = "init1" THEN "store" ELSE "running"]
  /\ UNCHANGED <<backend, tasks, idSeq, reusableIds, file, fails, mutex, loc, rets,
                 spawnLive, twin, resp, userMutex, isLoggedIn, loggedInUsername, stdin>>

\* a main that does not initialise the user store a second time
MainStore_Once ==
  /\ up /\ pc[Main] = "store"
  /\ pc' = [pc EXCEPT ![Main] = "running"]
  /\ UNCHANGED <<store, mutex, loc, rets, spawnLive, twin, http>>

\* taskStore = localTaskStore()
MainStore ==
  /\ up /\ pc[Main] = "store"
  /\ pc' = [pc EXCEPT ![Main] = "init2"]
  /\ UNCHANGED <<store, mutex, loc, rets, spawnLive, twin, http>>

\* userStore.AddUser(username, password); the write to a nil map panics
AddUser(username, password, outcome) ==
  /\ up /\ pc[Main] = "running"
  /\ AddUserCall(username, password, outcome)
  /\ last' = Call("AddUser", username, 0, AddUserErr(username, outcome), ZeroTask)
  /\ up' = (AddUserErr(username, outcome) # Panic)
  /\ UNCHANGED <<backend, tasks, idSeq, reusableIds, file, fails, conc, twin, resp,
                 isLoggedIn, loggedInUsername, stdin>>

\* userStore.CheckPassword(username, password)
CheckPassword(username, password) ==
  /\ up /\ pc[Main] = "running" /\ userMutex = 0
  /\ last' = Call("CheckPassword", username, 0, CheckPasswordErr(username, password), ZeroTask)
  /\ UNCHANGED <<backend, tasks, idSeq, reusableIds, file, up, fails, conc, twin, http>>

\* userStore.ListUsers()
ListUsers ==
  /\ up /\ pc[Main] = "running" /\ userMutex = 0
  /\ last' = Call("ListUsers", "", 0, Nil, ZeroTask)
  /\ UNCHANGED <<backend, tasks, idSeq, reusableIds, file, up, fails, conc, twin, http>>

\* the users.json a start may find: none, one left by an earlier run, or one
\* that is no JSON document
UsersFiles ==
  {NoFile, Corrupt} \cup
    {Document(EncodeUsers(MapPut(EmptyMap, "alice", NewUser("alice", p)))) : p \in Passwords}

InitUserStore ==
  /\ backend = "mem"
  /\ tasks = EmptyMap /\ idSeq = 0 /\ reusableIds = << >>
  /\ file = NoFile
  /\ up = TRUE
  /\ fails = 0
  /\ last = NoCall
  /\ mutex = 0
  /\ pc = [g \in Goroutines |-> IF g = Main THEN "init1" ELSE "unborn"]
  /\ usersFile \in UsersFiles
  /\ loc = [g \in Goroutines |-> IF g = Main THEN MainLocals(usersFile = NoFile) ELSE NoLocals]
  /\ rets = [g \in Goroutines |-> 0]
  /\ spawnLive = 0
  /\ twin = NewStore
  /\ users = EmptyMap /\ usersNil = TRUE
  /\ userMutex = 0
  /\ isLoggedIn = FALSE /\ loggedInUsername = ""
  /\ stdin = 0
  /\ resp = 0

NextUserStore ==
  \/ \E c \in CreateOutcomes, o \in OpenOutcomes : initializeUserStore(c, o)
  \/ MainStore
  \/ \E u \in Users, p \in Passwords, o \in SaveOutcomes : AddUser(u, p, o)
  \/ \E u \in Users, p \in Passwords : CheckPassword(u, p)
  \/ ListUsers

SpecUserStore == InitUserStore /\ [][NextUserStore]_vars

\* ------------------------------------------------------------------ the user map and the handler goroutines
\* The server runs each request in a goroutine of its own.  AddUser and
\* CheckPassword take userStore.mutex; usernameExists, which the handler of
\* /tasks calls, reads the map without it.  The assignment to the map is two
\* steps, so that a read can fall inside it.
Handlers == Goroutines \ {Main}
UserOps == {"AddUser", "CheckPassword"}
UserCallLocals(op, username, password) ==
  [op |-> op, user |-> username, password |-> password, err |-> Nil]
\* what a read of the map may see of a write that is under way, or the
\* runtime's fatal error "concurrent map read and map write"
RaceOutcomes == {"old", "new", "fatal"}
Writing == {g \in Handlers : pc[g] = "writing"}

\* the call is entered: store.mutex.Lock()
UserLock(g, op, username, password) ==
  /\ up /\ pc[g] = "ready"
  /\ userMutex = 0 /\ userMutex' = g
  /\ loc' = [loc EXCEPT ![g] = UserCallLocals(op, username, password)]
  /\ pc' = [pc EXCEPT ![g] = "locked"]
  /\ UNCHANGED <<store, mutex, rets, spawnLive, twin, users, resp, usersNil, usersFile,
                 isLoggedIn, loggedInUsername, stdin>>

\* if _, exists := store.users[username]; exists
AddUserCheck(g) ==
  /\ up /\ pc[g] = "locked" /\ loc[g].op = "AddUser"
  /\ IF Has(users, loc[g].user)
     THEN /\ loc' = [loc EXCEPT ![g].err = ErrUserExists]
          /\ pc' = [pc EXCEPT ![g] = "unlock"]
     ELSE /\ loc' = loc
          /\ pc' = [pc EXCEPT ![g] = "write"]
  /\ UNCHANGED <<store, mutex, rets, spawnLive, twin, http>>

\* store.users[username] = User{...}: the assignment begins ...
AddUserWrite(g) ==
  /\ up /\ pc[g] = "write"
  /\ pc' = [pc EXCEPT ![g] = "writing"]
  /\ UNCHANGED <<store, mutex, loc, rets, spawnLive, twin, http>>

\* ... and is done
AddUserWritten(g) ==
  /\ up /\ pc[g] = "writing"
  /\ users' = MapPut(users, loc[g].user, NewUser(loc[g].user, loc[g].password))
  /\ pc' = [pc EXCEPT ![g] = "save"]
  /\ UNCHANGED <<store, mutex, loc, rets, spawnLive, twin, resp, session>>

\* store.saveUsersToFile()
AddUserSave(g, outcome) ==
  /\ up /\ pc[g] = "save"
  /\ users' = users
  /\ saveUsersToFile(outcome)
  /\ loc' = [loc EXCEPT ![g].err = SaveErr(outcome)]
  /\ pc' = [pc EXCEPT ![g] = "unlock"]
  /\ UNCHANGED <<store, mutex, rets, spawnLive, twin, resp, usersNil, userMutex,
                 isLoggedIn, loggedInUsername, stdin>>

\* CheckPassword: the read of the map and the comparison
CheckPasswordRead(g) ==
  /\ up /\ pc[g] = "locked" /\ loc[g].op = "CheckPassword"
  /\ loc' = [loc EXCEPT ![g].err = CheckPasswordErr(loc[g].user, loc[g].password)]
  /\ pc' = [pc EXCEPT ![g] = "unlock"]
  /\ UNCHANGED <<store, mutex, rets, spawnLive, twin, http>>

\* return, and the deferred store.mutex.Unlock()
UserUnlock(g) ==
  /\ up /\ pc[g] = "unlock"
  /\ userMutex' = 0
  /\ last' = Call(loc[g].op, loc[g].user, 0, loc[g].err, ZeroTask)
  /\ loc' = [loc EXCEPT ![g] = NoLocals]
  /\ pc' = [pc EXCEPT ![g] = "ready"]
  /\ UNCHANGED <<backend, tasks, idSeq, reusableIds, file, up, fails, mutex, rets,
                 spawnLive, twin, users, resp, usersNil, usersFile,
                 isLoggedIn, loggedInUsername, stdin>>

\* the handler of /tasks calls usernameExists(userName)
usernameExistsCall(g, userName) ==
  /\ up /\ pc[g] = "ready"
  /\ loc' = [loc EXCEPT ![g] = UserCallLocals("usernameExists", userName, "")]
  /\ pc' = [pc EXCEPT ![g] = "exists"]
  /\ UNCHANGED <<store, mutex, rets, spawnLive, twin, http>>

\* _, exists := userStore.users[userName], with no mutex held: when another
\* goroutine is writing the map, the read sees the map without or with the
\* entry being written, or the runtime ends the process
usernameExists(g, outcome) ==
  /\ up /\ pc[g] = "exists"
  /\ Writing = {} => outcome = "old"
  /\ LET seen == IF outcome = "new"
                 THEN DOMAIN users \cup {loc[h].user : h \in Writing}
                 ELSE DOMAIN users
         exists == loc[g].user \in seen
     IN last' = Call("usernameExists", loc[g].user, 0,
                     IF outcome = "fatal" THEN Panic
                     ELSE IF exists THEN Nil ELSE ErrUserNotFound, ZeroTask)
  /\ up' = (outcome # "fatal")
  /\ loc' = [loc EXCEPT ![g] = NoLocals]
  /\ pc' = [pc EXCEPT ![g] = "ready"]
  /\ UNCHANGED <<backend, tasks, idSeq, reusableIds, file, fails, mutex, rets,
                 spawnLive, twin, http>>

InitRace ==
  /\ backend = "mem"
  /\ tasks = EmptyMap /\ idSeq = 0 /\ reusableIds = << >>
  /\ file = NoFile
  /\ up = TRUE
  /\ fails = 0
  /\ last = NoCall
  /\ mutex = 0
  /\ pc = [g \in Goroutines |-> IF g \in Handlers THEN "ready" ELSE "unborn"]
  /\ loc = [g \in Goroutines |-> NoLocals]
  /\ rets = [g \in Goroutines |-> 0]
  /\ spawnLive = 0
  /\ twin = NewStore
  /\ HttpIdle

NextRace ==
  \/ \E g \in Handlers, op \in UserOps, u \in Users, p \in Passwords : UserLock(g, op, u, p)
  \/ \E g \in Handlers : AddUserCheck(g)
  \/ \E g \in Handlers : AddUserWrite(g)
  \/ \E g \in Handlers : AddUserWritten(g)
  \/ \E g \in Handlers, o \in SaveOutcomes : AddUserSave(g, o)
  \/ \E g \in Handlers : CheckPasswordRead(g)
  \/ \E g \in Handlers : UserUnlock(g)
  \/ \E g \in Handlers, u \in Users : usernameExistsCall(g, u)
  \/ \E g \in Handlers, o \in RaceOutcomes : usernameExists(g, o)

SpecRace == InitRace /\ [][NextRace]_vars

\* ------------------------------------------------------------------ HTTP handlers
\* The handlers of /users, /tasks and /tasks/{id} in front of the task store
\* of either backend.  A request is handled in one step, the call of the
\* store it makes included.
Methods == {"GET", "POST", "PUT", "DELETE", "PATCH"}
\* the user names requests carry: the query parameter may be missing
Names == Users \cup {""}
\* the user a POST body of /users decodes to
UserBodies == [Username : Users, Password : {"secret"}]
\* the task a POST body decodes to: the decoder yields valid UTF-8 only
Bodies == [Title : {EmptyStr}, Description : Descriptions]
\* the outcomes of a save the handlers are run against
HttpSaveOutcomes == {"ok", "write failed"}
StatusOK == 200
StatusCreated == 201
StatusBadRequest == 400
StatusNotFound == 404
StatusMethodNotAllowed == 405
StatusConflict == 409
StatusInternalServerError == 500

\* taskStore.X(...): the call reaches the backend in use
AddTaskOf(s, u, title, description) ==
  IF backend = "mem" THEN MemAddTaskOf(s, u, title, description)
  ELSE JsAddTaskOf(s, u, title, description)
RemoveTaskOf(s, u, id) ==
  IF backend = "mem" THEN MemRemoveTaskOf(s, u, id) ELSE JsRemoveTaskOf(s, u, id)
CompleteTaskOf(s, u, id) ==
  IF backend = "mem" THEN MemCompleteTaskOf(s, u, id) ELSE JsCompleteTaskOf(s, u, id)
GetTaskOf(s, u, id) ==
  IF backend = "mem" THEN MemGetTaskOf(s, u, id) ELSE JsGetTaskOf(s, u, id)

\* the error a mutating call returns: its own, or the one of its save step,
\* which AddTask does not return
ReturnedErr(op, r, outcome) ==
  IF r.err # Nil THEN r.err
  ELSE IF backend = "json" /\ op # "AddTask" THEN SaveErr(outcome)
  ELSE Nil

\* the call of the store a handler makes: the store is left as the call
\* leaves it, the file backend saves when the call has changed the
\* collection, and the call is recorded with the error it returned
TaskStoreCall(op, u, id, r, outcome) ==
  /\ tasks' = r.s.tasks /\ idSeq' = r.s.idSeq /\ reusableIds' = r.s.reusableIds
  /\ IF backend = "json" /\ r.err = Nil /\ op \in {"AddTask", "RemoveTask", "CompleteTask"}
     THEN saveToFile(outcome)
     ELSE outcome = "ok" /\ UNCHANGED <<file, fails>>
  /\ last' = [Call(op, u, id, ReturnedErr(op, r, outcome), r.task)
                EXCEPT !.saved = (outcome = "ok")]

\* addUserHandler: POST /users; AddUser puts the user in the map and then
\* saves users.json, and any error of it is answered 409
addUserHandler(user, outcome) ==
  /\ up
  /\ AddUserCall(user.Username, user.Password, outcome)
  /\ resp' = IF AddUserErr(user.Username, outcome) = Nil THEN StatusCreated
             ELSE StatusConflict
  /\ UNCHANGED <<store, conc, twin, isLoggedIn, loggedInUsername, stdin>>

\* taskHandler: /tasks?username=U; userName is the query parameter or, without
\* one, loggedInUsername
taskHandlerServes(method, userName, task, outcome) ==
  /\ up
  /\ CASE userName = "" ->
            /\ outcome = "ok" /\ resp' = StatusBadRequest
            /\ UNCHANGED <<tasks, idSeq, reusableIds, file, fails, last>>
       [] userName # "" /\ method = "GET" ->
            /\ TaskStoreCall("ListTasks", userName, 0, Result(StoreOf, Nil, ZeroTask), outcome)
            /\ resp' = StatusOK
       [] userName # "" /\ method = "POST" ->
            /\ AllocGuard
            /\ TaskStoreCall("AddTask", userName,
                             AddTaskOf(StoreOf, userName, task.Title, task.Description).task.ID,
                             AddTaskOf(StoreOf, userName, task.Title, task.Description), outcome)
            /\ resp' = StatusCreated
       [] OTHER ->
            /\ outcome = "ok" /\ resp' = StatusMethodNotAllowed
            /\ UNCHANGED <<tasks, idSeq, reusableIds, file, fails, last>>
\* a request of /tasks served while nothing else happens
taskHandler(method, userName, task, outcome) ==
  /\ taskHandlerServes(method, userName, task, outcome)
  /\ UNCHANGED <<backend, up, conc, twin, users, session>>

\* singleTaskHandler: /tasks/{id}?username=U
singleTaskHandlerServes(method, userName, id, outcome) ==
  /\ up
  /\ CASE id <= 0 ->
            /\ outcome = "ok" /\ resp' = StatusBadRequest
            /\ UNCHANGED <<tasks, idSeq, reusableIds, file, fails, last>>
       [] id > 0 /\ method = "GET" ->
            /\ TaskStoreCall("GetTask", userName, id, GetTaskOf(StoreOf, userName, id), outcome)
            /\ resp' = IF last'.err # Nil THEN StatusNotFound ELSE StatusOK
       [] id > 0 /\ method = "PUT" ->
            /\ TaskStoreCall("CompleteTask", userName, id,
                             CompleteTaskOf(StoreOf, userName, id), outcome)
            /\ resp' = IF last'.err # Nil THEN StatusInternalServerError ELSE StatusOK
       [] id > 0 /\ method = "DELETE" ->
            /\ TaskStoreCall("RemoveTask", userName, id,
                             RemoveTaskOf(StoreOf, userName, id), outcome)
            /\ resp' = IF last'.err # Nil THEN StatusNotFound ELSE StatusOK
       [] OTHER ->
            /\ outcome = "ok" /\ resp' = StatusMethodNotAllowed
            /\ UNCHANGED <<tasks, idSeq, reusableIds, file, fails, last>>
\* a request of /tasks/{id} served while nothing else happens
singleTaskHandler(method, userName, id, outcome) ==
  /\ singleTaskHandlerServes(method, userName, id, outcome)
  /\ UNCHANGED <<backend, up, conc, twin, users, session>>

NextHttp ==
  \/ \E u \in UserBodies, o \in HttpSaveOutcomes : addUserHandler(u, o)
  \/ \E m \in Methods, u \in Names, t \in Bodies, o \in HttpSaveOutcomes :
       taskHandler(m, u, t, o)
  \/ \E m \in Methods, u \in Names, id \in 0 .. MaxId, o \in HttpSaveOutcomes :
       singleTaskHandler(m, u, id, o)

SpecHttp == Init /\ [][NextHttp]_vars

\* ------------------------------------------------------------------ command line
\* main runs runCLI while the server answers requests.  The command line
\* reads standard input line by line; what a line holds is chosen when it is
\* read.  The task commands go to the server of the same process, which
\* keeps its tasks in memory, and the users alice and bob are registered.
Lines == {"1", "2", "alice", "secret", "add", "list", "complete", "delete", "exit"}
StatusSeeOther == 303
\* the local variables of the command line: username of handleLogin when
\* the login succeeded, and userName of the last task command
CliLocals(username, userName) ==
  [user |-> "", title |-> EmptyStr, description |-> EmptyStr, reg |-> 0, id |-> 0,
   username |-> username, userName |-> userName]
\* the text of the i-th scanner.Scan() from now: "" after the end of input
Texts(i) == IF stdin >= i THEN Lines ELSE {""}
\* what is left to read after k calls of scanner.Scan()
Left(k) == IF stdin >= k THEN stdin - k ELSE 0
\* what the command line leaves alone in every step
CliFrame == UNCHANGED <<backend, mutex, rets, spawnLive, twin, usersNil, userMutex>>
StoreFrame == UNCHANGED <<tasks, idSeq, reusableIds, file, fails, last, resp>>

\* loginOrRegister: one turn of its loop; it returns at the end of input and
\* after handleLogin or handleRegister
loginOrRegister(input) ==
  /\ up /\ pc[Main] = "loginOrRegister"
  /\ input \in Texts(1)
  /\ stdin' = Left(1)
  /\ pc' = [pc EXCEPT ![Main] =
              CASE stdin = 0 -> "isLoggedIn"
                [] stdin > 0 /\ input = "1" -> "handleLogin"
                [] stdin > 0 /\ input = "2" -> "handleRegister"
                [] OTHER -> "loginOrRegister"]
  /\ CliFrame /\ StoreFrame
  /\ UNCHANGED <<up, loc, users, usersFile, isLoggedIn, loggedInUsername>>

\* handleLogin
handleLogin(username, password) ==
  /\ up /\ pc[Main] = "handleLogin"
  /\ username \in Texts(1) /\ password \in Texts(2)
  /\ stdin' = Left(2)
  /\ IF CheckPasswordErr(username, password) # Nil
     THEN isLoggedIn' = FALSE /\ UNCHANGED <<loggedInUsername, loc>>
     ELSE /\ isLoggedIn' = TRUE /\ loggedInUsername' = username
          /\ loc' = [loc EXCEPT ![Main].username = username]
  /\ pc' = [pc EXCEPT ![Main] = "isLoggedIn"]
  /\ CliFrame /\ StoreFrame
  /\ UNCHANGED <<up, users, usersFile>>

\* handleRegister, which goes on to handleLogin when AddUser returned no error
handleRegister(username, password, outcome) ==
  /\ up /\ pc[Main] = "handleRegister"
  /\ username \in Texts(1) /\ password \in Texts(2)
  /\ stdin' = Left(2)
  /\ AddUserCall(username, password, outcome)
  /\ IF AddUserErr(username, outcome) # Nil
     THEN isLoggedIn' = FALSE /\ pc' = [pc EXCEPT ![Main] = "isLoggedIn"]
     ELSE isLoggedIn' = isLoggedIn /\ pc' = [pc EXCEPT ![Main] = "handleLogin"]
  /\ StoreFrame
  /\ UNCHANGED <<backend, up, mutex, loc, rets, spawnLive, twin, loggedInUsername>>

\* runCLI: if isLoggedIn { break }, else loginOrRegister again
runCLILoggedIn ==
  /\ up /\ pc[Main] = "isLoggedIn"
  /\ pc' = [pc EXCEPT ![Main] = IF isLoggedIn THEN "command" ELSE "loginOrRegister"]
  /\ UNCHANGED <<store, mutex, loc, rets, spawnLive, twin, http>>

\* runCLI: the command loop reaches the end of input and runCLI returns
runCLIReturn ==
  /\ up /\ pc[Main] = "command" /\ stdin = 0
  /\ pc' = [pc EXCEPT ![Main] = "returned"]
  /\ UNCHANGED <<store, mutex, loc, rets, spawnLive, twin, http>>

\* runCLI: a line that is no task command; exit ends the process
runCLICommand(input) ==
  /\ up /\ pc[Main] = "command" /\ stdin > 0
  /\ input \in Lines \ {"add", "list", "complete", "delete"}
  /\ stdin' = stdin - 1
  /\ up' = (input # "exit")
  /\ CliFrame /\ StoreFrame
  /\ UNCHANGED <<pc, loc, users, usersFile, isLoggedIn, loggedInUsername>>

\* handleList and handleAdd: userName := loggedInUsername, then the request
\* of /tasks?username=userName, which the server answers
handleTasks(input, task) ==
  /\ up /\ pc[Main] = "command" /\ stdin > 0
  /\ input \in {"add", "list"}
  /\ stdin' = stdin - 1
  /\ loc' = [loc EXCEPT ![Main].userName = loggedInUsername]
  /\ IF loggedInUsername = "" THEN StoreFrame
     ELSE taskHandlerServes(IF input = "add" THEN "POST" ELSE "GET",
                            loggedInUsername, task, "ok")
  /\ CliFrame
  /\ UNCHANGED <<up, pc, users, usersFile, isLoggedIn, loggedInUsername>>

\* handleComplete and handleDelete: userName := loggedInUsername, then the
\* request of /tasks/{id}?username=userName
handleSingleTask(input, id) ==
  /\ up /\ pc[Main] = "command" /\ stdin > 0
  /\ input \in {"complete", "delete"}
  /\ stdin' = stdin - 1
  /\ loc' = [loc EXCEPT ![Main].userName = loggedInUsername]
  /\ IF loggedInUsername = "" THEN StoreFrame
     ELSE singleTaskHandlerServes(IF input = "complete" THEN "PUT" ELSE "DELETE",
                                  loggedInUsername, id, "ok")
  /\ CliFrame
  /\ UNCHANGED <<up, pc, users, usersFile, isLoggedIn, loggedInUsername>>

\* loginHandler, POST /login: a good password sets the two globals
loginHandler(username, password) ==
  /\ up
  /\ IF CheckPasswordErr(username, password) # Nil
     THEN resp' = StatusOK /\ UNCHANGED <<isLoggedIn, loggedInUsername>>
     ELSE resp' = StatusSeeOther /\ isLoggedIn' = TRUE /\ loggedInUsername' = username
  /\ UNCHANGED <<store, conc, twin, users, usersNil, usersFile, userMutex, stdin>>

\* the steps of the command line
NextRunCLI ==
  \/ \E input \in Lines \cup {""} : loginOrRegister(input)
  \/ \E u, p \in Lines \cup {""} : handleLogin(u, p)
  \/ \E u, p \in Lines \cup {""}, o \in HttpSaveOutcomes : handleRegister(u, p, o)
  \/ runCLILoggedIn
  \/ runCLIReturn
  \/ \E input \in Lines : runCLICommand(input)
  \/ \E input \in Lines, t \in Bodies : handleTasks(input, t)
  \/ \E input \in Lines, id \in Ids : handleSingleTask(input, id)

InitCli ==
  /\ backend = "mem"
  /\ tasks = EmptyMap /\ idSeq = 0 /\ reusableIds = << >>
  /\ file = NoFile
  /\ up = TRUE
  /\ fails = 0
  /\ last = NoCall
  /\ mutex = 0
  /\ pc = [g \in Goroutines |-> IF g = Main THEN "loginOrRegister" ELSE "unborn"]
  /\ loc = [g \in Goroutines |-> IF g = Main THEN CliLocals("", "") ELSE NoLocals]
  /\ rets = [g \in Goroutines |-> 0]
  /\ spawnLive = 0
  /\ twin = NewStore
  /\ users = [u \in Users |-> NewUser(u, "secret")]
  /\ usersNil = FALSE
  /\ usersFile = Document(EncodeUsers(users))
  /\ userMutex = 0
  /\ isLoggedIn = FALSE /\ loggedInUsername = ""
  /\ stdin \in 0 .. MaxLines
  /\ resp = 0

NextCli ==
  \/ NextRunCLI
  \/ \E u \in Users, p \in Passwords : loginHandler(u, p)

SpecCli == InitCli /\ [][NextCli]_vars

\* the main goroutine is not held up for ever; nothing makes a request come
SpecCliLive == SpecCli /\ WF_vars(NextRunCLI)

\* ------------------------------------------------------------------ TaskStore
\* a call through the TaskStore interface reaches the backend in use
GetTaskRet(u, id) == IF backend = "mem" THEN MemGetTaskRet(u, id) ELSE JsGetTaskRet(u, id)
ListTasksRet(u) == IF backend = "mem" THEN MemListTasksRet(u) ELSE JsListTasksRet(u)
RemoveTaskErr(u, id, outcome) ==
  IF backend = "mem" THEN MemRemoveTaskErr(u, id) ELSE JsRemoveTaskErr(u, id, outcome)
CompleteTaskErr(u, id, outcome) ==
  IF backend = "mem" THEN MemCompleteTaskErr(u, id) ELSE JsCompleteTaskErr(u, id, outcome)

\* ------------------------------------------------------------------ vocabulary of the properties
Elems(s) == {s[i] : i \in DOMAIN s}
Mutators == {"AddTask", "RemoveTask", "CompleteTask"}
\* an identifier no store of the model ever issues
NeverIssued == MaxId + 1
AnyId == 1 .. NeverIssued
\* the step is an AddTask call, a RemoveTask call that removed a task
AddStep ==
  /\ last'.op = "AddTask"
  /\ <<last, tasks, idSeq, reusableIds>>' # <<last, tasks, idSeq, reusableIds>>
RemoveStep ==
  /\ last'.op = "RemoveTask"
  /\ <<last, tasks, reusableIds>>' # <<last, tasks, reusableIds>>
\* the tasks a user can see: those ListTasks lists and those GetTask returns
Visible(u) ==
  UNION {Elems(l) : l \in ListTasksRet(u)}
    \cup {GetTaskRet(u, id).task : id \in {i \in AnyId : GetTaskRet(u, i).err = Nil}}
\* the identifiers held in the document of the backing file
FileIds == UNION {{Atoi(k) : k \in DOMAIN file.doc[u]} : u \in DOMAIN file.doc}
InSync == file = Document(Encode(tasks))

\* ------------------------------------------------------------------ C1
UniqueLive == \A id \in LiveIds : Cardinality(Owners(id)) = 1
\* C1: in both backends no identifier is held by two live tasks, whoever owns
\* them, and the identifier an AddTask call returns is not the identifier of
\* a task that was live when the call was made.
C1_Uniqueness ==
  /\ [](UniqueLive)
  /\ [][AddStep => last'.task.ID \notin LiveIds]_vars
\* an AddTask took a reclaimed identifier while another user's task is live
C1_Witness ==
  /\ last.op = "AddTask" /\ last.task.ID < idSeq
  /\ \E i \in LiveIds : i # last.task.ID /\ Owners(i) # Owners(last.task.ID)

\* ------------------------------------------------------------------ C2
\* C2: when a RemoveTask on identifier k has succeeded and no identifier
\* smaller than k is pending in the free-list, the next AddTask returns k.
C2_ReuseBeforeExtend ==
  [][(/\ AddStep
      /\ last.op = "RemoveTask" /\ last.err = Nil
      /\ \A j \in Elems(reusableIds) : j >= last.id)
     => last'.task.ID = last.id]_vars

\* ------------------------------------------------------------------ C3
\* C3: the free-list is in strictly ascending order in every reachable state.
C3_FreeListAscending ==
  \A i, j \in DOMAIN reusableIds : i < j => reusableIds[i] < reusableIds[j]

\* ------------------------------------------------------------------ C4
AllDone == \A g \in Goroutines : pc[g] = "done"
\* C4: in every interleaving of the concurrent AddTask calls on one in-memory
\* store the identifiers returned are pairwise distinct, every returned task
\* is held by the store as it was returned, under the caller's name, and when
\* all calls have returned the store holds one more live task per call.
C4_ConcurrentAdd ==
  /\ \A g, h \in Goroutines :
       (g # h /\ rets[g] # 0 /\ rets[h] # 0) => rets[g] # rets[h]
  /\ \A g \in Goroutines : rets[g] # 0 =>
       /\ Has(tasks, rets[g]) /\ DOMAIN tasks[rets[g]] = {loc[g].user}
       /\ tasks[rets[g]][loc[g].user] = AddedTask(g)
  /\ AllDone => Cardinality(DOMAIN tasks) = spawnLive + NumGoroutines
\* all calls returned, made by different users, one of them on a reclaimed
\* identifier and the others past the end of the sequence
C4_Witness ==
  /\ AllDone /\ spawnLive > 0
  /\ \E g, h \in Goroutines : loc[g].user # loc[h].user /\ rets[g] = 1 /\ rets[h] > MaxId

\* ------------------------------------------------------------------ C5
\* C5: a task becomes visible to user A (listed by ListTasks(A) or returned
\* by GetTask(A, id)) only as the task an AddTask call of A itself returned,
\* or as a task A already saw, completed by A; no call of another user puts
\* a task in A's view.  (Steps of the store's operations; a restart of the
\* process is not one of them.  A step that leaves the collection as it was
\* shows nobody a new task.)
C5_OwnershipIsolation ==
  [][(tasks' # tasks /\ last'.op # "restart") =>
       \A A \in Users : \A t \in Visible(A)' \ Visible(A) :
          \/ AddStep /\ last'.user = A /\ t = last'.task
          \/ /\ last'.op = "CompleteTask" /\ last'.user = A
             /\ \E s \in Visible(A) :
                  s.ID = last'.id /\ t = [s EXCEPT !.Completed = TRUE]]_vars
\* both users hold live tasks and each sees only its own
C5_Witness ==
  /\ last.op = "AddTask"
  /\ \E A, B \in Users : A # B /\ Visible(A) # {} /\ Visible(B) # {}
                          /\ Visible(A) \cap Visible(B) = {}

\* ------------------------------------------------------------------ C6
\* C6: in the file backend, after a mutating call that returned no error the
\* backing file holds the document of the in-memory task collection.
C6_FileMirrorsMemory ==
  (backend = "json" /\ last.op \in Mutators /\ last.err = Nil) => InSync

\* ------------------------------------------------------------------ C7
\* C7: restarting the file backend on a file that holds the saved task
\* collection yields the same tasks for every user.
C7_RoundTrip ==
  [][(last'.op = "restart" /\ InSync) => tasks' = tasks]_vars

\* ------------------------------------------------------------------ C8
\* C8: RemoveTask and CompleteTask by user A return the same error on an
\* identifier that another user B holds as on an identifier that is not live.
C8_SameErrorForeignAndAbsent ==
  \A A, B \in Users : \A i, j \in AnyId :
    (A # B /\ Owns(B, i) /\ ~Owns(A, i) /\ j \notin LiveIds) =>
       /\ RemoveTaskErr(A, i, "ok") = RemoveTaskErr(A, j, "ok")
       /\ CompleteTaskErr(A, i, "ok") = CompleteTaskErr(A, j, "ok")

\* ------------------------------------------------------------------ C9
\* C9: GetTask(A, id) fails, and with the same error and the same result,
\* when id is live and owned by another user B as when id was never issued.
C9_GetTaskNotFoundSymmetry ==
  \A A, B \in Users : \A i \in AnyId :
    (A # B /\ Owns(B, i) /\ ~Owns(A, i)) =>
       /\ GetTaskRet(A, i).err # Nil
       /\ GetTaskRet(A, i) = GetTaskRet(A, NeverIssued)
\* B holds an identifier, and A, who holds another one, does not hold it
C9_Witness ==
  \E A, B \in Users : \E i, j \in LiveIds :
    A # B /\ Owns(B, i) /\ ~Owns(A, i) /\ Owns(A, j)

\* ------------------------------------------------------------------ C10
NotFoundErrors == {ErrTaskNotFound, ErrTaskNotFoundForUser, ErrUserNotFound}
\* C10 as stated: RemoveTask succeeds exactly when the caller owns a live
\* task with that identifier: no call on a task of another user or on no task
\* succeeds, and every call that removed a task returned no error.
C10_RemoveSucceedsIffOwned ==
  /\ \A u \in Users, id \in AnyId : ~Owns(u, id) => RemoveTaskErr(u, id, "ok") # Nil
  /\ last.op = "RemoveTask" => last.err = Nil
\* C10 as amended: RemoveTask returns a not-found error exactly when the
\* caller owns no live task with that identifier; on a task the caller owns it
\* deletes the task and puts the identifier in the free-list, and it returns
\* success exactly when its save step succeeds (always, in memory); on
\* success the file holds the new collection, without that identifier.
C10_RemoveTask ==
  /\ [](\A u \in Users, id \in AnyId, o \in SaveOutcomes :
          RemoveTaskErr(u, id, o) = Nil
            <=> (Owns(u, id) /\ (backend = "json" => o = "ok")))
  /\ [](\A u \in Users, id \in AnyId, o \in SaveOutcomes :
          RemoveTaskErr(u, id, o) \in NotFoundErrors <=> ~Owns(u, id))
  /\ [][RemoveStep =>
          /\ Owns(last'.user, last'.id)
          /\ last'.id \notin LiveIds'
          /\ last'.id \in Elems(reusableIds')
          /\ (last'.err = Nil) <=> last'.saved
          /\ (backend = "json" /\ last'.err = Nil) =>
               (InSync' /\ last'.id \notin FileIds')]_vars
\* a RemoveTask deleted the caller's task while another task stays live
C10_Witness ==
  /\ last.op = "RemoveTask" /\ last.err = Nil
  /\ last.id \in Elems(reusableIds) /\ LiveIds # {}

\* ------------------------------------------------------------------ C11
\* GetTask(u, id) fails with a not-found error and no slice ListTasks(u) may
\* return holds a task with identifier id
Gone(u, id) ==
  /\ GetTaskRet(u, id).err \in NotFoundErrors
  /\ \A l \in ListTasksRet(u) : \A t \in Elems(l) : t.ID # id
\* C11: after a RemoveTask(u, id) that returned no error, GetTask(u, id) fails
\* with a not-found error and ListTasks(u) lists no task with identifier id,
\* and this stays so over every later call of the store that is not an
\* AddTask.  (Calls of the store; a restart of the process is not one.)
C11_DeletionClearsSlot ==
  /\ []((last.op = "RemoveTask" /\ last.err = Nil) => Gone(last.user, last.id))
  /\ [][last'.op \notin {"AddTask", "restart"} =>
          \A u \in Users, id \in AnyId : Gone(u, id) => Gone(u, id)']_vars
\* a task was removed, then the user's other task was completed, and the
\* removed identifier is still pending
C11_Witness ==
  /\ last.op = "CompleteTask" /\ last.err = Nil
  /\ \E id \in Elems(reusableIds) : Gone(last.user, id) /\ ~Gone(last.user, last.id)

\* ------------------------------------------------------------------ C12
\* the step is a CompleteTask call that wrote the store or the file
CompleteStep ==
  /\ last'.op = "CompleteTask"
  /\ <<last, tasks, file, fails>>' # <<last, tasks, file, fails>>
\* the step repeats the CompleteTask call that was made last
RepeatedComplete ==
  /\ CompleteStep /\ last.op = "CompleteTask"
  /\ last'.user = last.user /\ last'.id = last.id
\* C12 as stated: a CompleteTask(u, id) that follows a successful
\* CompleteTask(u, id) succeeds.
C12_CompleteTwiceSucceeds ==
  [][(RepeatedComplete /\ last.err = Nil) => last'.err = Nil]_vars
\* C12 as amended: after a CompleteTask(u, id) on a task u owns the task is
\* completed; a second CompleteTask(u, id) then succeeds exactly when its
\* save step succeeds (always, in memory), and whatever it returns it leaves
\* the tasks, the free-list and the high-water mark as the first call left
\* them; when it succeeds the file holds that collection.
C12_IdempotentCompletion ==
  /\ [](last.op = "CompleteTask" =>
          /\ GetTaskRet(last.user, last.id).err = Nil
          /\ GetTaskRet(last.user, last.id).task.Completed
          /\ \A o \in SaveOutcomes :
               CompleteTaskErr(last.user, last.id, o) = Nil
                 <=> (backend = "json" => o = "ok"))
  /\ [][RepeatedComplete =>
          /\ <<tasks, idSeq, reusableIds>>' = <<tasks, idSeq, reusableIds>>
          /\ (last'.err = Nil) <=> last'.saved
          /\ (backend = "json" /\ last'.err = Nil) => InSync']_vars
\* the file holds the collection with the task completed, and a further
\* CompleteTask on that task has failed in its save step
C12_Witness ==
  /\ last.op = "CompleteTask" /\ last.err = ErrIO /\ InSync
  /\ GetTaskRet(last.user, last.id).task.Completed

\* ------------------------------------------------------------------ C13
\* C13 as stated: CompleteTask succeeds exactly when the caller owns a live
\* task with that identifier: no call on a task the caller does not own
\* succeeds, and every call that reached an owned task returned no error.
C13_CompleteSucceedsIffOwned ==
  /\ \A u \in Users, id \in AnyId : ~Owns(u, id) => CompleteTaskErr(u, id, "ok") # Nil
  /\ last.op = "CompleteTask" => last.err = Nil
\* C13 as amended: CompleteTask returns a not-found error exactly when the
\* caller owns no live task with that identifier, and on an owned task it
\* succeeds exactly when its save step succeeds (always, in memory).  On an
\* owned task it sets the completed flag of that task and changes nothing
\* else: the task keeps its identifier, title, description and owner, every
\* other task of every user, the free-list and the high-water mark stay as
\* they were; on success the file holds the new collection.
C13_CompleteTask ==
  /\ [](\A u \in Users, id \in AnyId, o \in SaveOutcomes :
          /\ CompleteTaskErr(u, id, o) = Nil
               <=> (Owns(u, id) /\ (backend = "json" => o = "ok"))
          /\ CompleteTaskErr(u, id, o) \in NotFoundErrors <=> ~Owns(u, id))
  /\ [][CompleteStep =>
          /\ Owns(last'.user, last'.id)
          /\ <<idSeq, reusableIds>>' = <<idSeq, reusableIds>>
          /\ \A i \in AnyId : Owners(i)' = Owners(i)
          /\ \A w \in Users, i \in AnyId :
               GetTaskRet(w, i)' =
                 IF w = last'.user /\ i = last'.id
                 THEN [task |-> [GetTaskRet(w, i).task EXCEPT !.Completed = TRUE],
                       err |-> Nil]
                 ELSE GetTaskRet(w, i)
          /\ (last'.err = Nil) <=> last'.saved
          /\ (backend = "json" /\ last'.err = Nil) => InSync']_vars
\* a CompleteTask succeeded on one user's task while another user holds a
\* task that is not completed
C13_Witness ==
  /\ last.op = "CompleteTask" /\ last.err = Nil
  /\ GetTaskRet(last.user, last.id).task.Title # EmptyStr
  /\ \E w \in Users, i \in LiveIds :
       w # last.user /\ Owns(w, i) /\ ~GetTaskRet(w, i).task.Completed

\* ------------------------------------------------------------------ C14
\* AddTask(u, title, description) through the TaskStore interface, whatever
\* its save step does
AddTask(u, title, description) ==
  \/ MemAddTask(u, title, description)
  \/ \E o \in SaveOutcomes : JsAddTask(u, title, description, o)
\* C14: every AddTask(u, title, description), the empty title included,
\* returns without error a task that is not completed and whose title and
\* description are the arguments, and as long as no later call has changed
\* the store GetTask(u, returned id) returns exactly that task.
C14_AddTaskReturnsStoredTask ==
  /\ [][\A u \in Users, t \in Titles, d \in Descriptions :
          AddTask(u, t, d) =>
            /\ last'.op = "AddTask" /\ last'.user = u /\ last'.err = Nil
            /\ last'.task = NewTask(last'.id, t, d)
            /\ \E i \in Ids : /\ i = last'.id
                              /\ GetTaskRet(u, i)' = [task |-> last'.task, err |-> Nil]]_vars
  /\ [](last.op = "AddTask" =>
          /\ last.task.ID = last.id /\ ~last.task.Completed
          /\ GetTaskRet(last.user, last.id) = [task |-> last.task, err |-> Nil])
\* an AddTask with the empty title returned a task on a reclaimed identifier
C14_Witness ==
  /\ last.op = "AddTask" /\ last.task.Title = EmptyStr
  /\ last.task.Description = TitleT /\ last.id < idSeq

\* ------------------------------------------------------------------ C15
\* a user name no call has ever passed to the store
Stranger == "carol"
\* the live tasks of a user, as GetTask returns them one by one
OwnedTasks(u) == {GetTaskRet(u, id).task : id \in {i \in AnyId : Owns(u, i)}}
\* C15: every slice ListTasks(u) may return holds exactly the live tasks u
\* owns, each once; for a user who owns no task, and for a user name the
\* store has never seen, it is the empty slice.  (ListTasks has no error
\* result.)
C15_ListTasksExact ==
  \A u \in Users \cup {Stranger} :
    /\ ListTasksRet(u) # {}
    /\ \A l \in ListTasksRet(u) :
         /\ Elems(l) = OwnedTasks(u)
         /\ Len(l) = Cardinality({i \in AnyId : Owns(u, i)})
         /\ \A i, j \in DOMAIN l : i # j => l[i].ID # l[j].ID
         /\ (u = Stranger \/ \A i \in AnyId : ~Owns(u, i)) => l = << >>
\* one user owns two tasks, one of them completed, which ListTasks may
\* return in either order, and the other user owns none
C15_Witness ==
  \E u, w \in Users :
    /\ Cardinality(ListTasksRet(u)) = 2 /\ ListTasksRet(w) = {<< >>}
    /\ \E t \in OwnedTasks(u) : t.Completed

\* ------------------------------------------------------------------ C16
\* no goroutine has been started: the store has seen AddTask calls only
SetupPhase == \A g \in Goroutines : pc[g] = "unborn"
\* the live identifiers are 1 .. idSeq and none is pending reuse
Dense == reusableIds = << >> /\ LiveIds = 1 .. idSeq
CompletedIds ==
  {i \in LiveIds : \A u \in Owners(i) : GetTaskRet(u, i).task.Completed}
\* the call of goroutine g is a CompleteTask on a task its user owns
CompletesOwn(g) ==
  loc[g].op = "CompleteTask" /\ Owns(loc[g].user, loc[g].id)
\* C16 as stated, its last part: on a store that has seen AddTask calls only,
\* a CompleteTask on a task of the caller, made concurrently with others,
\* succeeds.
C16_CompleteAllSucceeds ==
  \A g \in Callers : (pc[g] = "unlock" /\ CompletesOwn(g)) => loc[g].err = Nil
\* C16 as amended: on a new store of either backend the AddTask calls made
\* one after the other, by whichever users and whatever their save steps do,
\* return 1, 2, ..., N in call order; a CompleteTask then made on any of
\* these by its owner, concurrently with other calls, sets the flag of that
\* task and of no other and leaves every task live, and it succeeds exactly
\* when its save step succeeds (always, in memory): when a CompleteTask has
\* been made on each of 1..N all N tasks are completed.
C16_SequentialIdsThenComplete ==
  /\ [](SetupPhase =>
          /\ Dense /\ idSeq = Cardinality(LiveIds)
          /\ last.op = "AddTask" => (last.id = idSeq /\ last.task.ID = idSeq))
  /\ [][(SetupPhase /\ SetupPhase' /\ last' # last) =>
          (last'.op = "AddTask" /\ last'.id = idSeq + 1 /\ idSeq' = idSeq + 1)]_vars
  /\ [][\A g \in Callers :
          (pc[g] = "read" /\ pc'[g] # "read" /\ CompletesOwn(g)) =>
            /\ CompletedIds' = CompletedIds \cup {loc[g].id}
            /\ LiveIds' = LiveIds
            /\ \A i \in AnyId : Owners(i)' = Owners(i)
            /\ <<idSeq, reusableIds>>' = <<idSeq, reusableIds>>]_vars
  /\ [](\A g \in Callers : (pc[g] = "unlock" /\ CompletesOwn(g)) =>
          /\ loc[g].id \in CompletedIds
          /\ (loc[g].err = Nil) <=> loc[g].saved)
\* the tasks 1..N were added by different users, every goroutine has
\* returned, and all N tasks are completed
C16_Witness ==
  /\ \A g \in Callers : pc[g] = "done"
  /\ Dense /\ idSeq = NumCallers /\ CompletedIds = 1 .. idSeq
  /\ Owners(1) # Owners(idSeq)

\* ------------------------------------------------------------------ C17
\* C17: an AddTask made while the free-list is empty increments the
\* high-water mark and returns it; an AddTask made while the free-list holds
\* an identifier returns one of the identifiers in it, takes that one out of
\* the free-list and leaves the high-water mark as it was.
C17_ExtendOnlyWhenNoneFree ==
  [][AddStep =>
       IF reusableIds = << >>
       THEN /\ idSeq' = idSeq + 1 /\ last'.id = idSeq'
            /\ reusableIds' = << >>
       ELSE /\ idSeq' = idSeq
            /\ last'.id \in Elems(reusableIds)
            /\ Len(reusableIds') = Len(reusableIds) - 1
            /\ Elems(reusableIds') = Elems(reusableIds) \ {last'.id}]_vars
\* an AddTask took one of two pending identifiers and left the other pending
C17_Witness ==
  /\ last.op = "AddTask" /\ last.id <= idSeq
  /\ reusableIds # << >> /\ last.id \notin Elems(reusableIds)

\* ------------------------------------------------------------------ C18
\* the step loaded the document of the backing file into a new store
LoadStep == last'.op = "restart" /\ up' /\ backend = "json"
\* C18: when the file backend loads a document, the tasks are those of the
\* document, the high-water mark is the largest identifier a live task holds
\* (0 when there is no task), and the free-list holds, each once, exactly the
\* identifiers from 1 up to but not including the high-water mark that no
\* live task holds.
C18_LoadRebuildsAllocator ==
  [][LoadStep =>
       /\ tasks' = Decode(file.doc)
       /\ \A i \in LiveIds' : i <= idSeq'
       /\ IF LiveIds' = {} THEN idSeq' = 0 ELSE idSeq' \in LiveIds'
       /\ Elems(reusableIds') = {i \in 1 .. (idSeq' - 1) : i \notin LiveIds'}
       /\ Len(reusableIds') = Cardinality(Elems(reusableIds'))]_vars
\* a store was loaded from a document in which identifier 1 is missing below
\* the highest one
C18_Witness ==
  /\ last.op = "restart" /\ up /\ InSync
  /\ idSeq > 1 /\ 1 \in Elems(reusableIds)

\* ------------------------------------------------------------------ C19
\* C19: after the same calls, every save succeeding, the file store and the
\* in-memory store answer the next call alike: GetTask returns the same task
\* or fails in both, ListTasks lists the same set of tasks, RemoveTask and
\* CompleteTask succeed in both or fail in both, and AddTask returns the
\* same task, with the same identifier.
C19_BackendsAgree ==
  \A u \in Users :
    /\ {Elems(l) : l \in JsListTasksOf(StoreOf, u)}
         = {Elems(l) : l \in MemListTasksOf(twin, u)}
    /\ \A t \in Titles, d \in Descriptions :
         JsAddTaskOf(StoreOf, u, t, d).task = MemAddTaskOf(twin, u, t, d).task
    /\ \A id \in AnyId :
         /\ JsGetTaskOf(StoreOf, u, id).task = MemGetTaskOf(twin, u, id).task
         /\ (JsGetTaskOf(StoreOf, u, id).err = Nil)
              <=> (MemGetTaskOf(twin, u, id).err = Nil)
         /\ (JsRemoveTaskOf(StoreOf, u, id).err = Nil)
              <=> (MemRemoveTaskOf(twin, u, id).err = Nil)
         /\ (JsCompleteTaskOf(StoreOf, u, id).err = Nil)
              <=> (MemCompleteTaskOf(twin, u, id).err = Nil)

\* ------------------------------------------------------------------ C20
\* the call of goroutine g is between its Lock and its Unlock
Inside(g) == pc[g] \in {"locked", "read", "save", "unlock"}
\* C20: in each backend a call of any of the five operations holds the mutex
\* from before its first read of the store until after its last write, at
\* most one call is inside the store at a time, and each call leaves the
\* store, and returns the values, that the operation makes of the store as it
\* was when the call read it, no other call having written in between: the
\* calls take effect one at a time, in the order they took the mutex.
C20_OneCallAtATime ==
  /\ \A g, h \in Callers : (Inside(g) /\ Inside(h)) => g = h
  /\ \A g \in Callers : Inside(g) => mutex = g
  /\ mutex # 0 => Inside(mutex)
  /\ \A g \in Callers : pc[g] = "read" => loc[g].read = StoreOf
  /\ \A g \in Callers : pc[g] \in {"save", "unlock"} =>
       LET r == Apply(g, loc[g].read)
       IN /\ StoreOf = r.s
          /\ loc[g].task = r.task
          /\ loc[g].list \in ListOf(g, loc[g].read)
          /\ r.err # Nil => loc[g].err = r.err
          /\ (pc[g] = "unlock" /\ r.err = Nil) =>
               /\ loc[g].err = IF loc[g].saved \/ loc[g].op = "AddTask" THEN Nil ELSE ErrIO
               /\ (backend = "json" /\ r.s # loc[g].read /\ loc[g].saved) => InSync
\* one call has returned and an AddTask of another goroutine, in the file
\* backend, has taken the identifier of a task that was live when the
\* goroutines started
C20_Witness ==
  \E g, h \in Callers :
    /\ pc[g] = "done" /\ pc[h] = "unlock" /\ backend = "json"
    /\ loc[h].op = "AddTask" /\ loc[h].task.ID <= spawnLive
\* ------------------------------------------------------------------ C21
\* the call of goroutine g has reached its save step, or is past it
SaveStep(g) == pc[g] = "save" /\ pc'[g] = "unlock"
\* the call of goroutine g is a call of the file store that saves
Saving(g) ==
  /\ backend = "json" /\ loc[g].op \in Mutators
  /\ Apply(g, loc[g].read).err = Nil
\* C21 as stated, its last part: in the file backend, once the concurrent
\* calls have all returned the file holds the in-memory task collection.
C21_FileEqualsMemoryAfterCalls ==
  (backend = "json" /\ \A g \in Callers : pc[g] = "done") => InSync
\* C21 as amended: in the file backend a concurrent call writes the backing
\* file only in its save step, holding the store mutex before and after the
\* write while no other call is inside the store, so the writes of
\* concurrent calls never interleave; a save step that succeeds leaves the
\* file equal to the in-memory task collection, the file stays equal to it
\* until the next mutating call writes the store or the next save step
\* fails, and a call that returns after a successful save returns with the
\* file equal to it: once all calls have returned the file equals the final
\* collection when the last save step succeeded, as it does when no save
\* step ever failed.
C21_WritesUnderMutex ==
  /\ [][(~SetupPhase /\ <<file, fails>>' # <<file, fails>>) =>
          \E g \in Callers :
            /\ SaveStep(g) /\ mutex = g /\ mutex' = g
            /\ \A h \in Callers \ {g} : ~Inside(h) /\ ~Inside(h)']_vars
  /\ [][\A g \in Callers : (SaveStep(g) /\ loc'[g].saved) => InSync']_vars
  /\ [][(backend = "json" /\ ~SetupPhase /\ InSync /\ ~InSync') =>
          \E g \in Callers :
            /\ mutex = g
            /\ \/ pc[g] = "read" /\ pc'[g] = "save"
               \/ SaveStep(g) /\ ~loc'[g].saved]_vars
  /\ [](\A g \in Callers :
          (pc[g] = "unlock" /\ Saving(g) /\ loc[g].saved) => InSync)
  /\ []((backend = "json" /\ fails = 0 /\ \A g \in Callers : pc[g] = "done") => InSync)
\* every goroutine has added a task and returned, a save step has failed on
\* the way, and the file holds the final collection
C21_Witness ==
  /\ backend = "json" /\ \A g \in Callers : pc[g] = "done"
  /\ Cardinality(LiveIds) = spawnLive + NumCallers
  /\ fails > 0 /\ InSync

\* ------------------------------------------------------------------ C22
\* the identifiers of the live tasks of a user, and these tasks
OwnedBy(u) == {i \in LiveIds : Owns(u, i)}
TasksOf(u) == {GetTaskRet(u, i).task : i \in OwnedBy(u)}
\* the number of AddTask calls of goroutine g that have written the store
AddsWritten(g) ==
  CASE pc[g] = "unborn" -> 0
    [] pc[g] = "done" -> TasksPerUser
    [] OTHER -> loc[g].n + (IF loc[g].op = "AddTask" /\ pc[g] \in {"save", "unlock"}
                            THEN 1 ELSE 0)
\* C22: when the users each make TasksPerUser AddTask calls on one store of
\* either backend, concurrently and with no RemoveTask, then in every
\* interleaving a user holds as many tasks as AddTask calls of its own have
\* written, however many the other users have made, and the ListTasks(u) it
\* makes after its own calls returns exactly its TasksPerUser tasks, each
\* once.
C22_ListReturnsOwnTasks ==
  \A g \in UserGoroutines :
    /\ Cardinality(OwnedBy(UserName(g))) = AddsWritten(g)
    /\ (pc[g] = "unlock" /\ loc[g].op = "ListTasks") =>
         /\ Len(loc[g].list) = TasksPerUser
         /\ Elems(loc[g].list) = TasksOf(loc[g].user)
         /\ \A i, j \in DOMAIN loc[g].list :
              i # j => loc[g].list[i].ID # loc[g].list[j].ID
\* a user lists its tasks, whose identifiers are not consecutive, while the
\* other user has made only some of its AddTask calls
C22_Witness ==
  \E g, h \in UserGoroutines :
    /\ pc[g] = "unlock" /\ loc[g].op = "ListTasks"
    /\ pc[h] = "ready" /\ loc[h].n > 0 /\ loc[h].n < TasksPerUser
    /\ \E i \in OwnedBy(loc[h].user) : \E j, k \in OwnedBy(loc[g].user) : j < i /\ i < k

\* ------------------------------------------------------------------ C23
\* C23 as stated: a CompleteTask a user makes on the task its AddTask has
\* just returned succeeds, while the other users do the same.
C23_CompleteOwnSucceeds ==
  \A g \in UserGoroutines :
    (pc[g] = "unlock" /\ loc[g].op = "CompleteTask") => loc[g].err = Nil
\* C23 as amended: in both backends, when a user calls AddTask and then
\* CompleteTask on the identifier returned, while the other users do the
\* same concurrently, the CompleteTask finds the task in every interleaving:
\* it returns no not-found error and leaves the task completed, and it
\* succeeds exactly when its save step succeeds (always, in memory).
C23_CompleteAfterAdd ==
  \A g \in UserGoroutines :
    /\ (pc[g] \in {"locked", "read"} /\ loc[g].op = "CompleteTask") =>
         /\ loc[g].id = rets[g] /\ Owns(loc[g].user, loc[g].id)
    /\ (pc[g] = "unlock" /\ loc[g].op = "CompleteTask") =>
         /\ loc[g].err \notin NotFoundErrors
         /\ (loc[g].err = Nil) <=> loc[g].saved
         /\ backend = "mem" => loc[g].err = Nil
         /\ GetTaskRet(loc[g].user, loc[g].id).err = Nil
         /\ GetTaskRet(loc[g].user, loc[g].id).task.Completed
\* in the file backend a user has completed its second task while the task
\* the other user has added is not completed yet
C23_Witness ==
  \E g, h \in UserGoroutines :
    /\ backend = "json" /\ pc[g] = "unlock" /\ loc[g].op = "CompleteTask"
    /\ loc[g].err = Nil /\ loc[g].n = TasksPerUser
    /\ pc[h] = "ready" /\ rets[h] # 0
    /\ ~GetTaskRet(loc[h].user, rets[h]).task.Completed

\* ------------------------------------------------------------------ C24
\* C24: a task keeps its owner: over every step of the store, a restart of
\* the file backend included, an identifier that is live before and after
\* the step is held by the same user.
C24_OwnerNeverChanges ==
  [][\A id \in LiveIds \cap LiveIds' : Owners(id)' = Owners(id)]_vars

C26_FailedSaveIsReturned ==
  (backend = "json" /\ last.op \in Mutators /\ ~last.saved) => last.err # Nil

\* ------------------------------------------------------------------ C27
\* C27 as stated, its first part: started on a path where there is no file,
\* the file backend creates the empty document and comes up as a store with
\* no task, high-water mark 0 and an empty free-list.
C27_AbsentFileGivesEmptyStore ==
  [][(last'.op = "start" /\ file = NoFile) =>
       /\ up' /\ file' = EmptyDocument
       /\ tasks' = EmptyMap /\ idSeq' = 0 /\ reusableIds' = << >>]_vars
\* C27 as amended: started on a path where there is no file, the file
\* backend tries to create the empty document: when that succeeds the file
\* holds the empty document and the store, if the file can be opened, comes
\* up with no task, high-water mark 0 and an empty free-list, and when it
\* fails startup is aborted and there is no store.  Started on a file that cannot be opened or that holds
\* no JSON document, startup is aborted, there is no store and the file is
\* left as it was.  Started on a document it can read, the store comes up
\* with the tasks of the document.
C27_Construction ==
  [][\A c \in CreateOutcomes, o \in OpenOutcomes :
       newJSONTaskStore(c, o) =>
         /\ file = NoFile =>
              /\ up' <=> (c = "ok" /\ o = "ok")
              /\ c = "ok" => file' = EmptyDocument
              /\ c # "ok" => file' \in {NoFile, Corrupt}
              /\ up' => (tasks' = EmptyMap /\ idSeq' = 0 /\ reusableIds' = << >>)
         /\ (file # NoFile /\ (o # "ok" \/ file = Corrupt)) => (~up' /\ file' = file)
         /\ (file.kind = "document" /\ o = "ok") =>
              (up' /\ file' = file /\ tasks' = Decode(file.doc))
         /\ ~up' => (last'.err # Nil /\ <<tasks, idSeq, reusableIds>>' = <<EmptyMap, 0, << >> >>)]_vars
\* a store has come up on the empty document, with nothing in it
C27_Witness ==
  /\ last.op = "start" /\ up /\ file = EmptyDocument /\ fails = 0
  /\ tasks = EmptyMap /\ idSeq = 0 /\ reusableIds = << >>


\* ------------------------------------------------------------------ C28
\* a request of /tasks/{id} that calls the store
SingleTaskRequest(method, userName, id) ==
  \E o \in HttpSaveOutcomes : singleTaskHandler(method, userName, id, o)

\* C28: whenever GetTask (GET /tasks/{id}), CompleteTask (PUT /tasks/{id}) or
\* RemoveTask (DELETE /tasks/{id}) returns a NotFound error to the handler,
\* the response status is 404.  The code answers 500 to the PUT.
C28_NotFoundIs404 ==
  [][\A m \in {"GET", "PUT", "DELETE"}, u \in Names, id \in Ids :
       (SingleTaskRequest(m, u, id) /\ last'.err \in NotFoundErrors)
         => resp' = StatusNotFound]_vars

\* ------------------------------------------------------------------ C29
\* C29: no task request reaches the store for a user name that is not
\* registered, so every owner of a live task is a registered user.  The
\* handlers never ask the user store.
C29_OwnersAreRegistered ==
  \A id \in LiveIds : Owners(id) \subseteq DOMAIN users

\* ------------------------------------------------------------------ C30
\* C30 as stated: after a restart of the file backend on the same file the
\* high-water mark has the value it had before the restart.
C30_MarkPersists ==
  [][LoadStep => idSeq' = idSeq]_vars
\* C30: a restart of the file backend on the same file never raises the
\* high-water mark; the identifiers it drops from the mark are held by no
\* task and are not on the free-list either; and when the file held the
\* content of the store at the restart, the mark is the largest identifier
\* of a live task (0 without tasks), so that it keeps its value exactly when
\* that value is 0 or the identifier of a live task.
C30_MarkAfterRestart ==
  [][LoadStep =>
       /\ idSeq' <= idSeq
       /\ \A i \in (idSeq' + 1) .. idSeq :
            i \notin LiveIds' /\ i \notin Elems(reusableIds')
       /\ InSync =>
            /\ \A i \in LiveIds : i <= idSeq'
            /\ idSeq' = idSeq <=> (idSeq = 0 \/ idSeq \in LiveIds)]_vars
\* a store restarted on a file every save has reached, with tasks and with a
\* mark below the largest identifier the store can issue
C30_Witness ==
  /\ backend = "json" /\ up /\ last.op = "restart"
  /\ fails = 0 /\ idSeq > 0 /\ idSeq < MaxId

\* ------------------------------------------------------------------ C32
\* C32: in both backends, in every state between two calls, the free-list
\* holds no identifier twice and no identifier of a live task, and the
\* free-list and the live identifiers together are the integers from 1 to
\* the high-water mark.
C32_AllocatorPartition ==
  /\ Len(reusableIds) = Cardinality(Elems(reusableIds))
  /\ Elems(reusableIds) \cap LiveIds = {}
  /\ Elems(reusableIds) \cup LiveIds = 1 .. idSeq
\* after a RemoveTask the free-list and the live identifiers are both
\* non-empty, in a store that has issued every identifier it can
C32_Witness ==
  /\ up /\ last.op = "RemoveTask" /\ last.err = Nil
  /\ reusableIds # << >> /\ LiveIds # {} /\ idSeq = MaxId

\* ------------------------------------------------------------------ C33
\* the store a restart on the present file would load
Reloaded ==
  LET ts == LoadedTasks(file.doc)
  IN [tasks |-> ts, idSeq |-> HighestID(ts),
      reusableIds |-> MissingIds(1, HighestID(ts), UsedIds(ts))]
\* C33: in a state of the file backend reached with successful saves only, a
\* restart on the file is not observable: the next AddTask returns the same
\* identifier from the store in memory and from the store a restart would
\* load.  The free-list of the file backend is in the order of the removals,
\* the reloaded one is ascending.
C33_RestartUnobservable ==
  (backend = "json" /\ up /\ fails = 0 /\ file # NoFile) =>
     \A u \in Users, t \in Titles, d \in Descriptions :
        JsAddTaskOf(Reloaded, u, t, d).task = JsAddTaskOf(StoreOf, u, t, d).task

\* ------------------------------------------------------------------ C34
\* the call of goroutine g is a RemoveTask, CompleteTask or GetTask that
\* found no task with its identifier owned by its user
FailedLookup(g) ==
  /\ loc[g].op \in {"RemoveTask", "CompleteTask", "GetTask"}
  /\ loc[g].err \in NotFoundErrors
\* C34: in both backends a RemoveTask, CompleteTask or GetTask call that fails
\* because its user owns no live task with the identifier leaves the store as
\* it was: the step in which the call decides so changes neither the tasks,
\* nor the free-list, the high-water mark or the file, the call goes on to
\* its return without saving, and when it returns the store is the one it
\* read when it entered and the file is untouched.
C34_FailedCallChangesNothing ==
  [][\A g \in Callers :
       /\ (pc[g] = "read" /\ pc'[g] # "read" /\ FailedLookup(g)') =>
            /\ <<tasks, idSeq, reusableIds, file, fails>>' =
                 <<tasks, idSeq, reusableIds, file, fails>>
            /\ pc'[g] = "unlock"
       /\ (pc[g] = "unlock" /\ FailedLookup(g)) =>
            /\ StoreOf' = loc[g].read
            /\ <<file, fails>>' = <<file, fails>>]_vars
\* a RemoveTask is about to return a not-found error for an identifier that
\* a task of another user holds
C34_Witness ==
  \E g \in Callers :
    /\ pc[g] = "unlock" /\ loc[g].op = "RemoveTask" /\ loc[g].err \in NotFoundErrors
    /\ Owners(loc[g].id) # {} /\ loc[g].user \notin Owners(loc[g].id)

\* ------------------------------------------------------------------ C35
\* goroutine g is inside a ListTasks or GetTask call
Reading(g) ==
  /\ pc[g] \in {"locked", "read", "save", "unlock"}
  /\ loc[g].op \in {"ListTasks", "GetTask"}
\* C35: ListTasks and GetTask are read-only in both backends: from the step
\* that enters such a call to the step that returns from it, no task, nor
\* the free-list, the high-water mark or the file changes, and the call
\* never reaches the save step.  So whatever calls the other goroutines
\* make, the slice a ListTasks call returns holds all N tasks its user has
\* in the store, with N distinct identifiers.
C35_ReadsAreReadOnly ==
  /\ [][\A g \in Callers : (Reading(g) \/ Reading(g)') =>
          <<tasks, idSeq, reusableIds, file, fails>>' =
            <<tasks, idSeq, reusableIds, file, fails>>]_vars
  /\ [](\A g \in Callers :
          /\ Reading(g) => pc[g] # "save"
          /\ (pc[g] = "unlock" /\ loc[g].op = "ListTasks") =>
               LET l == loc[g].list
               IN /\ Len(l) = Cardinality({id \in LiveIds : Owns(loc[g].user, id)})
                  /\ Cardinality({l[i].ID : i \in DOMAIN l}) = Len(l)
                  /\ \A i \in DOMAIN l : Owns(loc[g].user, l[i].ID))
\* a ListTasks call is about to return two tasks after another goroutine's
\* call has returned
C35_Witness ==
  \E g, h \in Callers :
    /\ pc[g] = "unlock" /\ loc[g].op = "ListTasks" /\ Len(loc[g].list) = 2
    /\ pc[h] = "done"

\* ------------------------------------------------------------------ C31
\* C31: a user name is a unique key of the user store, never mutated and
\* never deleted: no step takes a user out of the map or changes its
\* password; AddUser on a registered user name returns an error and leaves
\* the map as it was; and AddUser puts a new user in the map with the
\* password it was given.
C31_UsersAreNeverChanged ==
  [][/\ \A u \in DOMAIN users : Has(users', u) /\ users'[u] = users[u]
     /\ \A u \in Users, p \in Passwords, o \in SaveOutcomes :
          AddUser(u, p, o) =>
             IF Has(users, u)
             THEN last'.err = ErrUserExists /\ users' = users
             ELSE users' = MapPut(users, u, NewUser(u, p))]_vars
\* AddUser was refused for a registered user whose password is not the one
\* offered, next to a second registered user
C31_Witness ==
  /\ last.op = "AddUser" /\ last.err = ErrUserExists
  /\ CheckPasswordErr(last.user, "guess") = ErrInvalidPassword
  /\ Cardinality(DOMAIN users) = 2

\* ------------------------------------------------------------------ C36
\* C36: whenever AddUser returns an error the user map is as before the
\* call.  The code puts the user in the map before it saves, and leaves it
\* there when the save fails.
C36_AddUserAllOrNothing ==
  [][\A u \in Users, p \in Passwords, o \in SaveOutcomes :
       (AddUser(u, p, o) /\ last'.err # Nil) =>
          /\ users' = users
          /\ CheckPasswordErr(u, p)' = CheckPasswordErr(u, p)]_vars

\* ------------------------------------------------------------------ C39
\* C39 as stated: after a startup that found no users.json, the first
\* AddUser of a new user name succeeds.
C39_FirstAddUserSucceeds ==
  [][\A u \in Users, p \in Passwords, o \in SaveOutcomes :
       (AddUser(u, p, o) /\ loc[Main].absent /\ users = EmptyMap) =>
          last'.err = Nil]_vars
\* C39: after a startup that found no users.json and ran to its end, the
\* user map is an initialised map holding no user.  An AddUser of a new user
\* name then does not panic: it puts the user in the map and returns no
\* error when users.json was written and the error of the write otherwise,
\* and in both cases CheckPassword with the same password succeeds
\* afterwards.
C39_StartupMakesTheMap ==
  /\ []((up /\ pc[Main] = "running") => ~usersNil)
  /\ [][(loc[Main].absent /\ pc[Main] = "init2" /\ pc'[Main] = "running") =>
          users' = EmptyMap]_vars
  /\ [][\A u \in Users, p \in Passwords, o \in SaveOutcomes :
          (AddUser(u, p, o) /\ loc[Main].absent /\ ~Has(users, u)) =>
             /\ last'.err = SaveErr(o) /\ up'
             /\ CheckPasswordErr(u, p)' = Nil]_vars
\* started without users.json, the store has registered a user and checked
\* its password
C39_Witness ==
  /\ loc[Main].absent /\ up /\ pc[Main] = "running"
  /\ last.op = "CheckPassword" /\ last.err = Nil
  /\ DOMAIN users = {last.user}
  /\ usersFile = Document(EncodeUsers(users))

\* ------------------------------------------------------------------ C38
\* C38: every read and write of the user map is made by the goroutine that
\* holds userStore.mutex, so no handler is about to read the map while an
\* AddUser is writing it.  usernameExists takes no mutex.
C38_MapAccessUnderMutex ==
  /\ \A g \in Handlers : pc[g] \in {"write", "writing"} => userMutex = g
  /\ \A g, h \in Handlers : ~(pc[g] = "writing" /\ pc[h] = "exists")


\* ------------------------------------------------------------------ C37
\* C37: after a successful login at the command line as user A, every later
\* task command of the command line (add, list, complete, delete) is issued
\* on behalf of A, whatever requests, POST /login of another user included,
\* the server answers in between: the userName a task command used is the
\* username handleLogin accepted.
C37_CommandsOnBehalfOfCliUser ==
  (loc[Main].username \in Users /\ loc[Main].userName # "")
    => loc[Main].userName = loc[Main].username

\* ------------------------------------------------------------------ C40
\* C40: runCLI eventually returns once standard input is exhausted, both
\* when the end of input is reached in the command loop and when it is
\* reached while logging in or registering, before any successful login.
C40_RunCLIReturns ==
  (up /\ stdin = 0) ~> (pc[Main] = "returned" \/ ~up)
\* the half of it about the command loop
C40_CommandLoopReturns ==
  (up /\ stdin = 0 /\ pc[Main] = "command") ~> (pc[Main] = "returned")
====
